---------------------------- MODULE Spec2Model ----------------------------
(***************************************************************************)
(* Retrieval-and-ranking pipeline of the research assistant backend:       *)
(*   tools.SearchClient        (internal/tools/search_client.go)           *)
(*   agents.ProAgent           (internal/agents/pro_agent.go)              *)
(*   tools.BM25Reranker, tools.CredibilityScorer                           *)
(*                                                                         *)
(* Three specifications share the module:                                  *)
(*   SpecFn      applies the pure list functions (deduplicateResults,      *)
(*               selectDiverseSources) to inputs drawn in Init;            *)
(*   SpecSearch  runs one SearchClient.Search call provider by provider;   *)
(*   Spec        runs ProAgent.ProcessWithContext, with the sub-query      *)
(*               goroutines, the result channel and the collecting loop.   *)
(*                                                                         *)
(* Representation of Go values.                                            *)
(*  - A URL string is a record of the parts the code looks at:             *)
(*      host   the host name written in lower case without "www."; ""      *)
(*             stands for a string with no host name or one that           *)
(*             url.Parse rejects (both make extractDomain return "");      *)
(*      www    the host is written with a leading "www.";                  *)
(*      caps   the string is written with upper-case letters;              *)
(*      path   the path (an identifier, 0 is the empty path);              *)
(*      trail  the number of "/" characters ending the string.             *)
(*  - float64 scores are integers in thousandths.                          *)
(***************************************************************************)
EXTENDS Integers, Sequences, FiniteSets, TLC

(***************************************************************************)
(* Bounds of the model.                                                    *)
(***************************************************************************)
\* longest input list drawn for the pure list functions
MaxLen == 4
\* largest selection budget drawn for selectDiverseSources
MaxBudget == 4
\* largest number of trailing slashes of a drawn URL
MaxTrail == 2
\* number of entries of the longest provider response
BigLen == 11
\* most usable lines the generation collaborator returns for a decomposition
MaxLines == 4
MaxRank == 3
MaxTf == 3

(***************************************************************************)
(* Program constants.                                                      *)
(***************************************************************************)
\* selectDiverseSources: maxPerDomain := 2
maxPerDomain == 2
\* ProcessWithContext: selectDiverseSources(allResults, 10)
SelectBudget == 10
\* ProcessWithContext: displaySources[:8]
DisplayMax == 8
\* ProcessWithContext / parallelSubQuerySearch: len(allResults) < 3
MinResults == 3
\* Search: thresholds below which Brave, DDG Instant and DDG HTML are tried
BraveBelow == 3
InstantBelow == 2
HTMLBelow == 1
\* generateSubQueries: subQueries[:3]
MaxSubQueries == 3
\* maxResults passed to Search by a sub-query branch and by the direct search
SubQueryMax == 5
DirectMax == 15

(***************************************************************************)
(* Sequences.                                                              *)
(***************************************************************************)
Min(a, b) == IF a < b THEN a ELSE b

\* s[:n] of Go for n <= len(s); the whole of s otherwise
Take(s, n) == SubSeq(s, 1, Min(n, Len(s)))

Range(s) == {s[i] : i \in DOMAIN s}

RECURSIVE SeqsUpTo(_, _)
SeqsUpTo(S, n) ==
    IF n = 0 THEN {<<>>}
    ELSE LET shorter == SeqsUpTo(S, n - 1)
         IN shorter \cup {Append(s, x) : s \in {t \in shorter : Len(t) = n - 1}, x \in S}

(***************************************************************************)
(* URLs.                                                                   *)
(***************************************************************************)
Url(h, p) == [host |-> h, www |-> FALSE, caps |-> FALSE, path |-> p, trail |-> 0]

\* the empty string
NoURL == Url("", 0)

\* strings.TrimRight(u, "/"): every trailing slash goes
TrimRightSlash(u) == [u EXCEPT !.trail = 0]

\* strings.ToLower(u)
ToLower(u) == [u EXCEPT !.caps = FALSE]

\* deduplicateResults: strings.ToLower(strings.TrimRight(result.URL, "/"))
normalizedURL(u) == ToLower(TrimRightSlash(u))

\* url.Parse(u).Hostname(): the host as written
Hostname(u) ==
    IF u.host = "" THEN [name |-> "", www |-> FALSE, caps |-> FALSE]
    ELSE [name |-> u.host, www |-> u.www, caps |-> u.caps]

\* extractDomain: lower-cased host name with the "www." prefix removed,
\* "" when the URL does not parse or has no host
extractDomain(u) ==
    LET hostname == [Hostname(u) EXCEPT !.caps = FALSE]
        stripped == [hostname EXCEPT !.www = FALSE]
    IN  stripped.name

(***************************************************************************)
(* models.TavilyResult: URL, the document (Title and Content together),    *)
(* Score and Credibility.                                                  *)
(***************************************************************************)
Result(u, d, s) == [URL |-> u, Doc |-> d, Score |-> s, Credibility |-> 0]

(***************************************************************************)
(* SearchClient.deduplicateResults                                         *)
(***************************************************************************)
RECURSIVE DedupLoop(_, _, _, _)
DedupLoop(results, i, seen, unique) ==
    IF i > Len(results) THEN unique
    ELSE LET key == normalizedURL(results[i].URL)
         IN  IF key \notin seen
             THEN DedupLoop(results, i + 1, seen \cup {key}, Append(unique, results[i]))
             ELSE DedupLoop(results, i + 1, seen, unique)

\* a deduplication that trims one slash only and stores the key it computed
RECURSIVE DedupLoopRewriting(_, _, _, _)
DedupLoopRewriting(results, i, seen, unique) ==
    IF i > Len(results) THEN unique
    ELSE LET u   == results[i].URL
             key == ToLower([u EXCEPT !.trail = IF @ > 0 THEN @ - 1 ELSE 0])
         IN  IF key \notin seen
             THEN DedupLoopRewriting(results, i + 1, seen \cup {key},
                                     Append(unique, [results[i] EXCEPT !.URL = key]))
             ELSE DedupLoopRewriting(results, i + 1, seen, unique)

\* a deduplication on the URL as written
RECURSIVE DedupLoopExact(_, _, _, _)
DedupLoopExact(results, i, seen, unique) ==
    IF i > Len(results) THEN unique
    ELSE IF results[i].URL \notin seen
         THEN DedupLoopExact(results, i + 1, seen \cup {results[i].URL},
                             Append(unique, results[i]))
         ELSE DedupLoopExact(results, i + 1, seen, unique)

deduplicateResultsExact(results) == DedupLoopExact(results, 1, {}, <<>>)

deduplicateResultsRewriting(results) == DedupLoopRewriting(results, 1, {}, <<>>)

deduplicateResults(results) == DedupLoop(results, 1, {}, <<>>)

(***************************************************************************)
(* ProAgent.selectDiverseSources                                           *)
(***************************************************************************)
\* domainCounts[domain] of a Go map: 0 for a missing key
CountOf(domainCounts, domain) ==
    IF domain \in DOMAIN domainCounts THEN domainCounts[domain] ELSE 0

Increment(domainCounts, domain) ==
    (domain :> (CountOf(domainCounts, domain) + 1)) @@ domainCounts

\* a first loop that compares with <= and so admits one entry too many per domain
RECURSIVE FirstPassOffByOne(_, _, _, _, _)
FirstPassOffByOne(results, i, selected, domainCounts, maxResults) ==
    IF i > Len(results) \/ Len(selected) >= maxResults
    THEN [selected |-> selected, domainCounts |-> domainCounts]
    ELSE LET domain == extractDomain(results[i].URL)
         IN  IF domain = ""
             THEN FirstPassOffByOne(results, i + 1, selected, domainCounts, maxResults)
             ELSE IF CountOf(domainCounts, domain) <= maxPerDomain
             THEN FirstPassOffByOne(results, i + 1, Append(selected, results[i]),
                                    Increment(domainCounts, domain), maxResults)
             ELSE FirstPassOffByOne(results, i + 1, selected, domainCounts, maxResults)

\* first loop: admit while the domain holds fewer than maxPerDomain entries
RECURSIVE FirstPass(_, _, _, _, _)
FirstPass(results, i, selected, domainCounts, maxResults) ==
    IF i > Len(results) \/ Len(selected) >= maxResults
    THEN [selected |-> selected, domainCounts |-> domainCounts]
    ELSE LET domain == extractDomain(results[i].URL)
         IN  IF domain = ""
             THEN FirstPass(results, i + 1, selected, domainCounts, maxResults)
             ELSE IF CountOf(domainCounts, domain) < maxPerDomain
             THEN FirstPass(results, i + 1, Append(selected, results[i]),
                            Increment(domainCounts, domain), maxResults)
             ELSE FirstPass(results, i + 1, selected, domainCounts, maxResults)

\* a second loop that admits nothing
SecondPassNone(results, i, selected, domainCounts, maxResults) == selected

\* second loop: fill the remaining slots from domains already at the cap,
\* skipping a result whose URL is already selected
RECURSIVE SecondPass(_, _, _, _, _)
SecondPass(results, i, selected, domainCounts, maxResults) ==
    IF i > Len(results) \/ Len(selected) >= maxResults
    THEN selected
    ELSE LET domain == extractDomain(results[i].URL)
             found  == \E j \in DOMAIN selected : selected[j].URL = results[i].URL
         IN  IF CountOf(domainCounts, domain) >= maxPerDomain /\ ~found
             THEN SecondPass(results, i + 1, Append(selected, results[i]),
                             domainCounts, maxResults)
             ELSE SecondPass(results, i + 1, selected, domainCounts, maxResults)

\* a selection that takes the best-ranked results whatever their domain
selectTopRanked(results, maxResults) ==
    LET hosted == SelectSeq(results, LAMBDA r : extractDomain(r.URL) # "")
    IN  IF Len(hosted) > maxResults THEN Take(hosted, maxResults) ELSE hosted

selectDiverseSources(results, maxResults) ==
    LET first == FirstPass(results, 1, <<>>, <<>>, maxResults)
    IN  IF Len(first.selected) < maxResults
        THEN SecondPass(results, 1, first.selected, first.domainCounts, maxResults)
        ELSE first.selected

(***************************************************************************)
(* Provider adapters of SearchClient.  A provider's raw response is        *)
(* failed (transport error, error status, cancelled context) or carries    *)
(* the decoded body.  A raw entry has a title or text (present or not), a  *)
(* URL (NoURL when missing), a document and the score the provider         *)
(* reports (0: none).                                                      *)
(***************************************************************************)
Entry(u, d) == [title |-> TRUE, url |-> u, doc |-> d, score |-> 0]

NoEntry == [title |-> FALSE, url |-> NoURL, doc |-> "", score |-> 0]

Failed == [ok |-> FALSE, body |-> <<>>]

Body(b) == [ok |-> TRUE, body |-> b]

\* the loop shared by trySearXNG and tryBraveSearchAPI: entries at index
\* >= maxResults are not read, entries without title or URL are skipped, the
\* score is the reported one when positive and base - step * index otherwise
RECURSIVE AdaptIndexed(_, _, _, _, _, _)
AdaptIndexed(raw, i, maxResults, results, base, step) ==
    IF i > Len(raw) \/ i - 1 >= maxResults THEN results
    ELSE LET r == raw[i]
         IN  IF ~r.title \/ r.url = NoURL
             THEN AdaptIndexed(raw, i + 1, maxResults, results, base, step)
             ELSE AdaptIndexed(raw, i + 1, maxResults,
                      Append(results,
                             Result(r.url, r.doc,
                                    IF r.score > 0 THEN r.score ELSE base - step * (i - 1))),
                      base, step)

trySearXNG(raw, maxResults) ==
    IF ~raw.ok THEN <<>>
    ELSE AdaptIndexed(raw.body, 1, maxResults, <<>>, 950, 30)

\* Brave reports no score: results[i].Score = 0.9 - 0.04 i
tryBraveSearchAPI(raw, maxResults, braveAPIKey) ==
    IF ~braveAPIKey \/ ~raw.ok THEN <<>>
    ELSE AdaptIndexed([i \in DOMAIN raw.body |-> [raw.body[i] EXCEPT !.score = 0]],
                      1, maxResults, <<>>, 900, 40)

\* the related topics of an instant answer, read until maxResults results
\* (the direct answer and the abstract included) are held
RECURSIVE AdaptTopics(_, _, _, _)
AdaptTopics(topics, i, maxResults, results) ==
    IF i > Len(topics) \/ Len(results) >= maxResults THEN results
    ELSE LET t == topics[i]
         IN  IF t.url # NoURL /\ t.title
             THEN AdaptTopics(topics, i + 1, maxResults,
                              Append(results, Result(t.url, t.doc, 900 - 50 * (i - 1))))
             ELSE AdaptTopics(topics, i + 1, maxResults, results)

DDGHome == Url("duckduckgo.com", 0)

\* body: [answer, abstract, topics]; answer is "" and abstract NoEntry when absent
tryInstantAnswer(raw, maxResults) ==
    IF ~raw.ok THEN <<>>
    ELSE LET b == raw.body
             direct == IF b.answer # "" THEN <<Result(DDGHome, b.answer, 1000)>>
                       ELSE <<>>
             abstract == IF b.abstract.title /\ b.abstract.url # NoURL
                         THEN <<Result(b.abstract.url, b.abstract.doc, 950)>>
                         ELSE <<>>
         IN  AdaptTopics(b.topics, 1, maxResults, direct \o abstract)

\* the .result elements of the HTML page, read until maxResults results are held
RECURSIVE AdaptHTML(_, _, _, _)
AdaptHTML(raw, i, maxResults, results) ==
    IF i > Len(raw) THEN results
    ELSE IF Len(results) >= maxResults
         THEN AdaptHTML(raw, i + 1, maxResults, results)
         ELSE LET r == raw[i]
              IN  IF r.title /\ r.url # NoURL
                  THEN AdaptHTML(raw, i + 1, maxResults,
                                 Append(results,
                                        Result(r.url, r.doc, 800 - 50 * Len(results))))
                  ELSE AdaptHTML(raw, i + 1, maxResults, results)

tryDDGHTML(raw, maxResults) ==
    IF ~raw.ok THEN <<>>
    ELSE AdaptHTML(raw.body, 1, maxResults, <<>>)

(***************************************************************************)
(* SearchClient.Search: the conditions under which each fallback provider  *)
(* is tried, and what the call returns.                                    *)
(***************************************************************************)
\* a cascade that tries DuckDuckGo Instant Answer only when nothing is held
InstantWantedWhenEmpty(allResults) == Len(allResults) < HTMLBelow

BraveWanted(allResults, braveAPIKey) == Len(allResults) < BraveBelow /\ braveAPIKey

InstantWanted(allResults) == Len(allResults) < InstantBelow

HTMLWanted(allResults) == Len(allResults) < HTMLBelow

\* a Search that reports an empty cascade as an error
SearchErrWhenEmpty(allResults) == IF allResults = <<>> THEN "no results" ELSE "nil"

\* the error Search returns
SearchErr(allResults) == "nil"

\* deduplicate, limit, return
SearchResponse(allResults, maxResults) ==
    LET unique == deduplicateResults(allResults)
        limited == IF Len(unique) > maxResults THEN Take(unique, maxResults) ELSE unique
    IN  [Results |-> limited, err |-> SearchErr(limited)]

\* the whole call on the four raw responses
SearchRun(raws, maxResults, braveAPIKey) ==
    LET a1 == trySearXNG(raws.searxng, maxResults)
        a2 == IF BraveWanted(a1, braveAPIKey)
              THEN a1 \o tryBraveSearchAPI(raws.brave, maxResults - Len(a1), braveAPIKey)
              ELSE a1
        a3 == IF InstantWanted(a2)
              THEN a2 \o tryInstantAnswer(raws.instant, maxResults - Len(a2))
              ELSE a2
        a4 == IF HTMLWanted(a3)
              THEN a3 \o tryDDGHTML(raws.html, maxResults - Len(a3))
              ELSE a3
    IN  SearchResponse(a4, maxResults)

(***************************************************************************)
(* The sort loops of BM25Reranker.Rerank and CredibilityScorer.RankSources:*)
(*   for i := 0; i < n-1; i++ { for j := i+1; j < n; j++ {                 *)
(*       if s[j].key > s[i].key { s[i], s[j] = s[j], s[i] } } }            *)
(***************************************************************************)
Swap(s, i, j) == [s EXCEPT ![i] = s[j], ![j] = s[i]]

RECURSIVE SwapSortByScore(_, _, _)
SwapSortByScore(s, i, j) ==
    IF i >= Len(s) THEN s
    ELSE IF j > Len(s) THEN SwapSortByScore(s, i + 1, i + 2)
    ELSE IF s[j].Score > s[i].Score THEN SwapSortByScore(Swap(s, i, j), i, j + 1)
    ELSE SwapSortByScore(s, i, j + 1)

\* an exchange loop that makes its first pass only
RECURSIVE SwapSortFirstPassOnly(_, _, _)
SwapSortFirstPassOnly(s, i, j) ==
    IF i >= Len(s) \/ j > Len(s) THEN s
    ELSE IF s[j].Credibility > s[i].Credibility
         THEN SwapSortFirstPassOnly(Swap(s, i, j), i, j + 1)
    ELSE SwapSortFirstPassOnly(s, i, j + 1)

RECURSIVE SwapSortByCredibility(_, _, _)
SwapSortByCredibility(s, i, j) ==
    IF i >= Len(s) THEN s
    ELSE IF j > Len(s) THEN SwapSortByCredibility(s, i + 1, i + 2)
    ELSE IF s[j].Credibility > s[i].Credibility
         THEN SwapSortByCredibility(Swap(s, i, j), i, j + 1)
    ELSE SwapSortByCredibility(s, i, j + 1)

(***************************************************************************)
(* Documents.  A document stands for a Title and a Content; what the code  *)
(* computes from the text is tabulated per document:                       *)
(*   d1  long text citing a study and a year, matching the query well      *)
(*   d2  short text matching the query in one term                         *)
(*   d3  short text under a clickbait title, sharing no term with the query*)
(*   ""  empty Title and Content                                           *)
(***************************************************************************)
\* NewBM25Reranker: k1 = 1.5 and b = 0.75, as fractions
k1 == [num |-> 3, den |-> 2]

b == [num |-> 3, den |-> 4]

\* len(tokenize(Title + " " + Content)) of a document
docTokens(doc) ==
    IF doc = "d1" THEN 8 ELSE IF doc = "d2" THEN 6 ELSE IF doc = "d3" THEN 3
    ELSE IF doc = "d4" THEN 5 ELSE 0

\* a term score that grows with tf without bound
termScoreLinear(tf, docLen, totalLen, nDocs) ==
    [num |-> tf * (k1.num + k1.den) * b.den * totalLen,
     den |-> k1.num * ((b.den - b.num) * totalLen + b.num * docLen * nDocs)]

\* computeBM25, one query term, per unit of idf:
\*   tf * (k1 + 1) / (tf + k1 * (1 - b + b * docLen / avgDocLen))
\* with avgDocLen = totalLen / nDocs, as a fraction of integers
termScore(tf, docLen, totalLen, nDocs) ==
    [num |-> tf * (k1.num + k1.den) * b.den * totalLen,
     den |-> tf * k1.den * b.den * totalLen
             + k1.num * ((b.den - b.num) * totalLen + b.num * docLen * nDocs)]

\* computeBM25 of the document for the query, in thousandths
computeBM25(doc) ==
    IF doc = "d1" THEN 2100 ELSE IF doc = "d3" \/ doc = "" THEN 0 ELSE 800

\* scoreContent: 0.5, +0.2 over 500 characters, +0.05 for a citation keyword,
\* +0.05 for a date, -0.1 for a clickbait title
scoreContent(doc) ==
    IF doc = "d1" THEN 800 ELSE IF doc = "d3" THEN 400 ELSE 500

\* the 3-token windows of the lower-cased Content longer than 15 characters,
\* in order of occurrence
Windows(doc) ==
    IF doc = "d1" THEN <<"w1", "w2", "w3", "w4", "w5", "w1">>
    ELSE IF doc = "d2" THEN <<"w1", "w2", "w3", "w4">>
    ELSE IF doc = "d4" THEN <<"w2", "w3", "w4">>
    ELSE <<>>

\* scoreDomain: 1.0 for a high-trust domain, 0.75 for a medium-trust one,
\* 0.4 for a social network, 0.5 otherwise
scoreDomain(u) ==
    LET domain == [Hostname(u) EXCEPT !.caps = FALSE].name
    IN  IF domain = "wikipedia.org" THEN 1000
        ELSE IF domain = "github.com" THEN 750
        ELSE IF domain = "reddit.com" THEN 400
        ELSE 500

\* scoreURL: 0.5, +0.2 for the prefix "https://" (an upper-case or relative
\* URL has none), +0.2 under 100 characters; no modelled URL holds a
\* suspicious pattern
scoreURL(u) == IF u.caps \/ u.host = "" THEN 700 ELSE 900

\* scoreFreshness: no modelled URL holds the rune string(rune(year))
scoreFreshness(u) == 500

\* the weighted sum returned as it is
ScoreSourceUnclamped(source) ==
    50000 + scoreDomain(source.URL) * 30 + scoreContent(source.Doc) * 25
    + source.Score * 25 + scoreURL(source.URL) * 10 + scoreFreshness(source.URL) * 10

\* ScoreSource, in units of 1/100000
ScoreSource(source) ==
    LET score == 50000 + scoreDomain(source.URL) * 30 + scoreContent(source.Doc) * 25
                 + source.Score * 25 + scoreURL(source.URL) * 10
                 + scoreFreshness(source.URL) * 10
    IN  IF score > 100000 THEN 100000 ELSE IF score < 0 THEN 0 ELSE score

\* BM25Reranker.Rerank: results unchanged when there is none or the query has
\* no term; otherwise Score overwritten and the list sorted
Rerank(queryTerms, results) ==
    IF Len(results) = 0 \/ queryTerms = 0 THEN results
    ELSE SwapSortByScore([i \in DOMAIN results |->
                              [results[i] EXCEPT !.Score = computeBM25(results[i].Doc)]],
                         1, 2)

\* CredibilityScorer.RankSources
RankSources(sources) ==
    SwapSortByCredibility([i \in DOMAIN sources |->
                              [sources[i] EXCEPT !.Credibility = ScoreSource(sources[i])]],
                          1, 2)

(***************************************************************************)
(* ProAgent.crossVerify                                                    *)
(***************************************************************************)
\* commonPhrases[phrase]: one increment per occurrence of the window
PhraseCount(results, phrase) ==
    LET occ(i) == Cardinality({n \in DOMAIN Windows(results[i].Doc) :
                                  Windows(results[i].Doc)[n] = phrase})
        sum[i \in 0..Len(results)] == IF i = 0 THEN 0 ELSE sum[i - 1] + occ(i)
    IN  sum[Len(results)]

verifiedCount(results) ==
    LET phrases == UNION {Range(Windows(results[i].Doc)) : i \in DOMAIN results}
    IN  Cardinality({ph \in phrases : PhraseCount(results, ph) >= 2})

\* a verdict that calls four shared phrases only partly verified
crossVerifyAboveFour(results) ==
    IF Len(results) < 2 THEN ""
    ELSE IF verifiedCount(results) > 4 THEN "facts verified by multiple sources"
    ELSE IF verifiedCount(results) > 0 THEN "some facts verified by only one source"
    ELSE "sources contain different information"

crossVerify(results) ==
    IF Len(results) < 2 THEN ""
    ELSE IF verifiedCount(results) > 3 THEN "facts verified by multiple sources"
    ELSE IF verifiedCount(results) > 0 THEN "some facts verified by only one source"
    ELSE "sources contain different information"

(***************************************************************************)
(* ProAgent: the pieces of ProcessWithContext and parallelSubQuerySearch   *)
(***************************************************************************)
\* generateSubQueries on the collaborator's answer: -1 an error, otherwise the
\* number of usable lines; the number of sub-queries returned
generateSubQueries(lines) ==
    IF lines < 0 THEN 1
    ELSE IF lines = 0 THEN 1
    ELSE IF lines > MaxSubQueries THEN MaxSubQueries
    ELSE lines

\* parallelSubQuerySearch: failCount >= len(subQueries)/2 || len(allResults) < 3
FanOutInsufficient(failCount, k, allResults) ==
    failCount >= k \div 2 \/ Len(allResults) < MinResults

\* ProcessWithContext: if len(allResults) < 3 { direct search }
FallbackWanted(allResults) == Len(allResults) < MinResults

\* displaySources := topResults; if len > 8 { displaySources[:8] }
displaySources(topResults) ==
    IF Len(topResults) > DisplayMax THEN Take(topResults, DisplayMax) ELSE topResults

\* a response that lists every selected source
SourcesUnlimited(topResults) ==
    [i \in DOMAIN topResults |->
        [URL |-> topResults[i].URL, Doc |-> topResults[i].Doc,
         Credibility |-> topResults[i].Credibility]]

\* Step 10: the Source entries of the response
Sources(topResults) ==
    LET shown == displaySources(topResults)
    IN  [i \in DOMAIN shown |->
            [URL |-> shown[i].URL, Doc |-> shown[i].Doc, Credibility |-> shown[i].Credibility]]

(***************************************************************************)
(* ProAgent.detectMultiHop and ProAgent.generateSubQueries on texts.  A    *)
(* query is the set of its distinct words and its number of fields; the    *)
(* four Russian question words of the list are written in Latin letters.   *)
(***************************************************************************)
\* strings.Contains(word, part) on the words drawn
Contains(word, part) ==
    \/ word = part
    \/ word = "show" /\ part = "how"
    \/ word = "somewhat" /\ part = "what"
    \/ word = "incomparable" /\ part = "compare"

\* the strong indicators (25 phrases in the source, three kept)
strongIndicators == {"compare", "difference between", "pros and cons"}

\* the words counted in a long query
questionWordList == {"what", "how", "why", "kogda", "kak", "pochemu", "chto"}

\* questionWords: the listed words that occur somewhere in the query
questionWords(query) ==
    Cardinality({w \in questionWordList : \E t \in query.kinds : Contains(t, w)})

\* a query taken for long from 20 fields on
detectMultiHopFromTwenty(query) ==
    \/ \E t \in query.kinds, ind \in strongIndicators : Contains(t, ind)
    \/ query.words >= 20 /\ questionWords(query) >= 2

\* detectMultiHop: an indicator occurs, or len(strings.Fields(query)) > 20
\* and questionWords >= 2
detectMultiHop(query) ==
    \/ \E t \in query.kinds, ind \in strongIndicators : Contains(t, ind)
    \/ query.words > 20 /\ questionWords(query) >= 2

\* a line of the collaborator's answer: a list prefix and a text
Line(prefix, text) == [prefix |-> prefix, text |-> text]

\* the line trimmed, its "- ", "* " or "N. " prefix removed
CleanLine(line) == Line("", line.text)

\* len(line) > 10 and the line holds neither "sub-question" nor its Russian
\* counterpart
Substantial(line) == line.text \notin {"", "short", "Sub-questions:"}

\* the lines kept, cleaned, in order
RECURSIVE KeptLines(_)
KeptLines(lines) ==
    IF lines = <<>> THEN <<>>
    ELSE LET line == CleanLine(Head(lines))
         IN  (IF Substantial(line) THEN <<line>> ELSE <<>>) \o KeptLines(Tail(lines))

\* a decomposition that returns what it kept, be it nothing
subQueriesOfUnguarded(answer, query) ==
    IF ~answer.ok THEN <<>>
    ELSE Take(KeptLines(answer.body), MaxSubQueries)

\* generateSubQueries on the collaborator's answer, an error or lines of text
subQueriesOf(answer, query) ==
    IF ~answer.ok THEN <<query>>
    ELSE LET kept == KeptLines(answer.body)
         IN  IF Len(kept) = 0 THEN <<query>>
             ELSE IF Len(kept) > MaxSubQueries THEN Take(kept, MaxSubQueries)
             ELSE kept

(***************************************************************************)
(* State.                                                                  *)
(***************************************************************************)
VARIABLES
    \* SpecFn: the step reached, the input list, the budget, the output list
    \* and the output of a second application to the first output
    fnPc, fnIn, fnArg, fnOut, fnAgain,
    \* SpecSearch, one Search call: the step reached, maxResults, whether
    \* braveAPIKey is set, whether ctx is done, allResults, the response,
    sPc, sMax, sKey, sCtx, sAcc, sRet,
    \* the decision taken at each provider in turn (what the call logs), the
    \* clock and SearchClient.lastReqTime (in ticks of 100 ms)
    sLog, now, lastReqTime,
    \* Spec, ProcessWithContext: the step reached, detectMultiHop(query),
    \* whether braveAPIKey is set, whether searchQuery has a BM25 term,
    \* whether the 20 s context is done, len(subQueries)
    pc, needsMultiHop, braveAPIKey, queryTerms, deadline, subQueries,
    \* per sub-query goroutine: the step reached, whether its 12 s timer has
    \* fired, whether its Search call met a done context, what Search returned
    bPc, bTimedOut, bExpired, bRes,
    \* resultsChan, whether it is closed, the WaitGroup counter
    resultsChan, closed, wg,
    \* the collecting loop: allResults, successCount, failCount, the messages
    \* received in order, and the outcome of the test logged at its end
    allResults, successCount, failCount, received, insufficient,
    \* the direct Search calls made, the list handed to the Reranker, the
    \* stages run, topResults, the verdict and the response returned
    fallbackCalls, handed, stages, topResults, verification, response,
    \* SpecFanOut, the concurrent Search calls of the sub-queries on the one
    \* SearchClient: per goroutine the provider and the step reached and the
    \* results accumulated; whose time.Now() the client's lastReqTime holds
    gPc, gAcc, rlWriter,
    \* SpecBot, the Telegram bot: the UserSession objects allocated, the map
    \* userSessions (user -> pointer, 0 absent), the updates received, the
    \* update loop's step, update and session pointer, and per handleQuery
    \* goroutine the step reached, its userID and its session pointer
    sessions, userSessions, updates, lPc, lCmd, lSession, hPc, hUser, hSession

fnVars == <<fnPc, fnIn, fnArg, fnOut, fnAgain>>

searchVars == <<sPc, sMax, sKey, sCtx, sAcc, sRet, sLog, now, lastReqTime>>

pipeVars ==
    <<pc, needsMultiHop, braveAPIKey, queryTerms, deadline, subQueries,
      bPc, bTimedOut, bExpired, bRes, resultsChan, closed, wg,
      allResults, successCount, failCount, received, insufficient,
      fallbackCalls, handed, stages, topResults, verification, response>>

raceVars == <<gPc, gAcc, rlWriter>>

botVars == <<sessions, userSessions, updates, lPc, lCmd, lSession, hPc, hUser, hSession>>

vars == <<fnVars, searchVars, pipeVars, raceVars, botVars>>

(***************************************************************************)
(* SpecFn: the pure list functions on drawn inputs.                        *)
(***************************************************************************)
\* URLs drawn for the list functions: one page written five ways (as is, in
\* upper case, with trailing slashes, with "www."), a second page of the same
\* site, a page of another site, and a link without a host
FnURLs ==
    {Url("a.com", 1), [Url("a.com", 1) EXCEPT !.caps = TRUE],
     [Url("a.com", 1) EXCEPT !.www = TRUE],
     Url("a.com", 2), Url("b.com", 1), Url("", 1)}
    \cup {[Url("a.com", 1) EXCEPT !.trail = t] : t \in 1..MaxTrail}

\* each drawn result has a content of its own: its position in the list
FnInputs ==
    {[i \in DOMAIN us |-> Result(us[i], i, 0)] : us \in SeqsUpTo(FnURLs, MaxLen)}

Branches == 1..MaxSubQueries

NoResponse == [err |-> "pending", Answer |-> "", Sources |-> <<>>]

PipeStart ==
    /\ deadline = FALSE
    /\ subQueries = 0
    /\ bPc = [i \in Branches |-> "none"]
    /\ bTimedOut = [i \in Branches |-> FALSE]
    /\ bExpired = [i \in Branches |-> FALSE]
    /\ bRes = [i \in Branches |-> [Results |-> <<>>, err |-> "pending"]]
    /\ resultsChan = <<>>
    /\ closed = FALSE
    /\ wg = 0
    /\ allResults = <<>>
    /\ successCount = 0
    /\ failCount = 0
    /\ received = <<>>
    /\ insufficient = FALSE
    /\ fallbackCalls = 0
    /\ handed = <<>>
    /\ stages = {}
    /\ topResults = <<>>
    /\ verification = ""
    /\ response = NoResponse

PipeIdle ==
    /\ pc = "idle"
    /\ needsMultiHop = FALSE
    /\ braveAPIKey = FALSE
    /\ queryTerms = 0
    /\ PipeStart

\* the updates the bot receives in a run
MaxUpdates == 3

Users == 1..2

Handlers == 1..MaxUpdates

NoCmd == [kind |-> "none", user |-> 1, mode |-> "auto"]

BotIdle ==
    /\ sessions = <<>>
    /\ userSessions = [u \in Users |-> 0]
    /\ updates = 0
    /\ lPc = "idle"
    /\ lCmd = NoCmd
    /\ lSession = 0
    /\ hPc = [h \in Handlers |-> "none"]
    /\ hUser = [h \in Handlers |-> 1]
    /\ hSession = [h \in Handlers |-> 0]

RaceIdle ==
    /\ gPc = [i \in Branches |-> <<"none", "none">>]
    /\ gAcc = [i \in Branches |-> <<>>]
    /\ rlWriter = 0

SearchIdle ==
    /\ sPc = "idle"
    /\ sMax = 0
    /\ sKey = FALSE
    /\ sCtx = FALSE
    /\ sAcc = <<>>
    /\ sRet = [Results |-> <<>>, err |-> "pending"]
    /\ sLog = <<>>
    /\ now = 0
    /\ lastReqTime = 0

FnIdle ==
    /\ fnPc = "idle"
    /\ fnIn = <<>>
    /\ fnArg = 0
    /\ fnOut = <<>>
    /\ fnAgain = <<>>

FnInit ==
    /\ fnPc = "input"
    /\ fnIn \in FnInputs
    /\ fnArg = 0
    /\ fnOut = <<>>
    /\ fnAgain = <<>>
    /\ SearchIdle
    /\ PipeIdle
    /\ RaceIdle
    /\ BotIdle

\* unique := deduplicateResults(results)
FnDedup ==
    /\ fnPc = "input"
    /\ fnOut' = deduplicateResults(fnIn)
    /\ fnPc' = "deduped"
    /\ UNCHANGED <<fnIn, fnArg, fnAgain, searchVars, pipeVars, raceVars, botVars>>

\* deduplicateResults applied to its own output
FnDedupAgain ==
    /\ fnPc = "deduped"
    /\ fnAgain' = deduplicateResults(fnOut)
    /\ fnPc' = "deduped2"
    /\ UNCHANGED <<fnIn, fnArg, fnOut, searchVars, pipeVars, raceVars, botVars>>

\* selected := selectDiverseSources(results, maxResults)
FnSelect ==
    /\ fnPc = "input"
    /\ \E maxResults \in 1..MaxBudget :
          /\ fnArg' = maxResults
          /\ fnOut' = selectDiverseSources(fnIn, maxResults)
    /\ fnPc' = "selected"
    /\ UNCHANGED <<fnIn, fnAgain, searchVars, pipeVars, raceVars, botVars>>

FnNext == FnDedup \/ FnDedupAgain \/ FnSelect

SpecFn == FnInit /\ [][FnNext]_vars

(***************************************************************************)
(* SpecSearch: one SearchClient.Search call, provider by provider.         *)
(***************************************************************************)
\* rateLimit: minDelay := 500 * time.Millisecond
MinDelay == 5

\* ticks a provider request may take
RequestTicks == {0, 2}

A1 == Url("wikipedia.org", 1)
A1v == [A1 EXCEPT !.caps = TRUE, !.trail = 1]
A2 == Url("wikipedia.org", 2)
B1 == Url("github.com", 1)
C1 == Url("reddit.com", 1)

\* host of the i-th entry of the longest response: three sites in turn
BigHost(i) ==
    IF i % 3 = 1 THEN "wikipedia.org" ELSE IF i % 3 = 2 THEN "github.com" ELSE "reddit.com"

BigBody == Body([i \in 1..BigLen |-> Entry(Url(BigHost(i), i), "d1")])

SearxMenu ==
    {Failed, Body(<<>>),
     Body(<<Entry(A1, "d1")>>),
     Body(<<Entry(A1, "d1"), Entry(A1v, "d2")>>),
     Body(<<Entry(A1, "d1"), NoEntry, [Entry(B1, "d2") EXCEPT !.score = 1700]>>),
     Body(<<Entry(A1, "d1"), Entry(A2, "d2"), Entry(B1, "d3")>>),
     BigBody}

BraveMenu ==
    {Failed, Body(<<>>),
     Body(<<Entry(B1, "d3")>>),
     Body(<<Entry(A1, "d3"), Entry(C1, "d1")>>)}

InstantMenu ==
    {Failed,
     Body([answer |-> "", abstract |-> NoEntry, topics |-> <<>>]),
     Body([answer |-> "d2", abstract |-> Entry(C1, "d1"),
           topics |-> <<Entry(A2, "d3"), [Entry(B1, "d1") EXCEPT !.title = FALSE]>>])}

HTMLMenu ==
    {Failed, Body(<<>>),
     Body(<<Entry(C1, "d2"), Entry(Url("", 1), "d3")>>)}

\* a request on a context that is done fails
Responses(menu) == IF sCtx THEN {Failed} ELSE menu

Decision(provider, invoked, raw, got, at) ==
    [provider |-> provider, before |-> Len(sAcc), invoked |-> invoked,
     ok |-> raw.ok, got |-> Len(got), at |-> at]

SearchInit ==
    /\ sPc = "searxng"
    /\ sMax \in {SubQueryMax, DirectMax}
    /\ sKey \in BOOLEAN
    /\ sCtx = FALSE
    /\ sAcc = <<>>
    /\ sRet = [Results |-> <<>>, err |-> "pending"]
    /\ sLog = <<>>
    /\ now = 0
    \* a client never used, or one whose last request has just been issued
    /\ lastReqTime \in {0 - MinDelay, 0}
    /\ FnIdle
    /\ PipeIdle
    /\ RaceIdle
    /\ BotIdle

\* the time at which rateLimit returns, which it stores in lastReqTime
RateLimited ==
    LET elapsed == now - lastReqTime
    IN  IF elapsed < MinDelay THEN now + (MinDelay - elapsed) ELSE now

\* Strategy 1: SearXNG, always, with no rateLimit call before it
SearchSearXNG ==
    /\ sPc = "searxng"
    /\ \E raw \in Responses(SearxMenu), d \in RequestTicks :
          LET got == trySearXNG(raw, sMax)
          IN  /\ now' = now + d
              /\ sLog' = Append(sLog, Decision("searxng", TRUE, raw, got, now))
              /\ sAcc' = sAcc \o got
    /\ sPc' = "brave"
    /\ UNCHANGED <<sMax, sKey, sCtx, sRet, lastReqTime, fnVars, pipeVars, raceVars, botVars>>

\* Strategy 2: Brave Search API
SearchBrave ==
    /\ sPc = "brave"
    /\ IF BraveWanted(sAcc, sKey)
       THEN \E raw \in Responses(BraveMenu), d \in RequestTicks :
              LET got == tryBraveSearchAPI(raw, sMax - Len(sAcc), sKey)
              IN  /\ lastReqTime' = RateLimited
                  /\ now' = RateLimited + d
                  /\ sLog' = Append(sLog, Decision("brave", TRUE, raw, got, RateLimited))
                  /\ sAcc' = sAcc \o got
       ELSE /\ sLog' = Append(sLog, Decision("brave", FALSE, Failed, <<>>, now))
            /\ UNCHANGED <<sAcc, now, lastReqTime>>
    /\ sPc' = "instant"
    /\ UNCHANGED <<sMax, sKey, sCtx, sRet, fnVars, pipeVars, raceVars, botVars>>

\* Strategy 3: DuckDuckGo Instant Answer
SearchInstant ==
    /\ sPc = "instant"
    /\ IF InstantWanted(sAcc)
       THEN \E raw \in Responses(InstantMenu), d \in RequestTicks :
              LET got == tryInstantAnswer(raw, sMax - Len(sAcc))
              IN  /\ lastReqTime' = RateLimited
                  /\ now' = RateLimited + d
                  /\ sLog' = Append(sLog, Decision("instant", TRUE, raw, got, RateLimited))
                  /\ sAcc' = sAcc \o got
       ELSE /\ sLog' = Append(sLog, Decision("instant", FALSE, Failed, <<>>, now))
            /\ UNCHANGED <<sAcc, now, lastReqTime>>
    /\ sPc' = "html"
    /\ UNCHANGED <<sMax, sKey, sCtx, sRet, fnVars, pipeVars, raceVars, botVars>>

\* Strategy 4: DuckDuckGo HTML
SearchHTML ==
    /\ sPc = "html"
    /\ IF HTMLWanted(sAcc)
       THEN \E raw \in Responses(HTMLMenu), d \in RequestTicks :
              LET got == tryDDGHTML(raw, sMax - Len(sAcc))
              IN  /\ lastReqTime' = RateLimited
                  /\ now' = RateLimited + d
                  /\ sLog' = Append(sLog, Decision("html", TRUE, raw, got, RateLimited))
                  /\ sAcc' = sAcc \o got
       ELSE /\ sLog' = Append(sLog, Decision("html", FALSE, Failed, <<>>, now))
            /\ UNCHANGED <<sAcc, now, lastReqTime>>
    /\ sPc' = "finish"
    /\ UNCHANGED <<sMax, sKey, sCtx, sRet, fnVars, pipeVars, raceVars, botVars>>

\* deduplicate, limit and return
SearchReturn ==
    /\ sPc = "finish"
    /\ sRet' = SearchResponse(sAcc, sMax)
    /\ sPc' = "done"
    /\ UNCHANGED <<sMax, sKey, sCtx, sAcc, sLog, now, lastReqTime, fnVars, pipeVars, raceVars, botVars>>

\* the caller's context expires or is cancelled while the call runs
SearchCtxExpire ==
    /\ sPc \in {"searxng", "brave", "instant", "html"}
    /\ ~sCtx
    /\ sCtx' = TRUE
    /\ UNCHANGED <<sPc, sMax, sKey, sAcc, sRet, sLog, now, lastReqTime, fnVars, pipeVars, raceVars, botVars>>

SearchNext ==
    \/ SearchSearXNG
    \/ SearchBrave
    \/ SearchInstant
    \/ SearchHTML
    \/ SearchReturn
    \/ SearchCtxExpire

SpecSearch == SearchInit /\ [][SearchNext]_vars

(***************************************************************************)
(* Spec: ProAgent.ProcessWithContext.  A Search call is one step here; the *)
(* point at which its context is found done decides which providers fail.  *)
(***************************************************************************)
NoInstant == Body([answer |-> "", abstract |-> NoEntry, topics |-> <<>>])

Quiet == [searxng |-> Body(<<>>), brave |-> Body(<<>>), instant |-> NoInstant,
          html |-> Body(<<>>)]

\* what the four providers answer to the Search call of a sub-query
BranchRaws ==
    {Quiet,
     [Quiet EXCEPT !.searxng = Body(<<Entry(A1, "d1"), Entry(B1, "d2")>>)],
     [Quiet EXCEPT !.searxng = Body(<<Entry(A1v, "d2"), Entry(A2, "d3"), Entry(C1, "d1")>>)]}

\* what they answer to a direct Search call
PipeRaws ==
    BranchRaws \cup
    {[Quiet EXCEPT !.searxng = BigBody],
     [Quiet EXCEPT !.searxng = Failed, !.brave = Failed,
                   !.html = Body(<<Entry(C1, "d2"), Entry(Url("", 1), "d3")>>)]}

\* requests issued once the context is done fail: provider number e and the
\* following ones (5: the context outlives the call)
ExpireFrom(raws, e) ==
    [searxng |-> IF e <= 1 THEN Failed ELSE raws.searxng,
     brave   |-> IF e <= 2 THEN Failed ELSE raws.brave,
     instant |-> IF e <= 3 THEN Failed ELSE raws.instant,
     html    |-> IF e <= 4 THEN Failed ELSE raws.html]

\* the request before which the context is found done: the first when it is
\* done at the call, any or none (5) when it is not
ExpiryPoints(done) == IF done THEN {1} ELSE 1..5

\* a sub-query context that any branch's timer cancels
CtxDoneShared(i) == deadline \/ \E j \in Branches : bTimedOut[j]

\* queryCtx of branch i: context.WithTimeout(ctx, 12 s), ctx the 20 s context
CtxDone(i) == deadline \/ bTimedOut[i]

\* a test made on the single-search path only
NoCandidatesSingleOnly(results) == Len(results) = 0 /\ ~needsMultiHop

\* if len(allResults) == 0
NoCandidates(results) == Len(results) = 0

Init ==
    /\ pc = "enhance"
    /\ needsMultiHop \in BOOLEAN
    /\ braveAPIKey \in BOOLEAN
    /\ queryTerms \in {0, 1}
    /\ PipeStart
    /\ FnIdle
    /\ SearchIdle
    /\ RaceIdle
    /\ BotIdle

\* Step 1 and 2: the query rewritten from the conversation history when the
\* collaborator returns a text, then detectMultiHop
Enhance ==
    /\ pc = "enhance"
    /\ \E llm \in IF deadline THEN {"no history", "error"}
                  ELSE {"no history", "error", "empty", "text"} :
          queryTerms' \in IF llm = "text" THEN {0, 1} ELSE {queryTerms}
    /\ pc' = IF needsMultiHop THEN "plan" ELSE "direct"
    /\ UNCHANGED <<needsMultiHop, braveAPIKey, deadline, subQueries,
                   bPc, bTimedOut, bExpired, bRes, resultsChan, closed, wg,
                   allResults, successCount, failCount, received, insufficient,
                   fallbackCalls, handed, stages, topResults, verification, response,
                   fnVars, searchVars, raceVars, botVars>>

\* subQueries := a.generateSubQueries(ctx, searchQuery, queryLang)
GenerateSubQueries ==
    /\ pc = "plan"
    /\ \E lines \in IF deadline THEN {0 - 1} ELSE (0 - 1)..MaxLines :
          subQueries' = generateSubQueries(lines)
    /\ pc' = "fanout"
    /\ UNCHANGED <<needsMultiHop, braveAPIKey, queryTerms, deadline,
                   bPc, bTimedOut, bExpired, bRes, resultsChan, closed, wg,
                   allResults, successCount, failCount, received, insufficient,
                   fallbackCalls, handed, stages, topResults, verification, response,
                   fnVars, searchVars, raceVars, botVars>>

\* parallelSubQuerySearch: the channel made with capacity len(subQueries), one
\* goroutine started per sub-query after wg.Add(1), the closing goroutine
FanOut ==
    /\ pc = "fanout"
    /\ bPc' = [i \in Branches |-> IF i <= subQueries THEN "run" ELSE "none"]
    /\ wg' = subQueries
    /\ pc' = "collect"
    /\ UNCHANGED <<needsMultiHop, braveAPIKey, queryTerms, deadline,
                   subQueries, bTimedOut, bExpired, bRes, resultsChan, closed,
                   allResults, successCount, failCount, received, insufficient,
                   fallbackCalls, handed, stages, topResults, verification, response,
                   fnVars, searchVars, raceVars, botVars>>

\* the goroutine of sub-query i: res, err := a.searchClient.Search(queryCtx, q,
\* 5, true), the send of the error or of the results on the buffered channel,
\* then the deferred cancel() and wg.Done().  A context already done fails
\* every request; otherwise the branch's 12 s timer or the request's 20 s
\* context may expire before any of the four requests.
SubQuerySearch(i) ==
    /\ bPc[i] = "run"
    /\ Len(resultsChan) < subQueries
    /\ \E raws \in BranchRaws, e \in ExpiryPoints(CtxDone(i)), timer \in BOOLEAN :
          LET res == SearchRun(ExpireFrom(raws, e), SubQueryMax, braveAPIKey)
          IN  /\ CtxDone(i) \/ e = 5 => ~timer
              /\ bTimedOut' = [bTimedOut EXCEPT ![i] = @ \/ timer]
              /\ deadline' = (deadline \/ (e <= 4 /\ ~CtxDone(i) /\ ~timer))
              /\ bExpired' = [bExpired EXCEPT ![i] = e <= 4]
              /\ bRes' = [bRes EXCEPT ![i] = res]
              /\ resultsChan' =
                    Append(resultsChan,
                           IF res.err # "nil"
                           THEN [results |-> <<>>, query |-> i, err |-> res.err]
                           ELSE [results |-> res.Results, query |-> i, err |-> "nil"])
    /\ wg' = wg - 1
    /\ bPc' = [bPc EXCEPT ![i] = "exited"]
    /\ UNCHANGED <<pc, needsMultiHop, braveAPIKey, queryTerms,
                   subQueries, closed,
                   allResults, successCount, failCount, received, insufficient,
                   fallbackCalls, handed, stages, topResults, verification, response,
                   fnVars, searchVars, raceVars, botVars>>

\* a closing goroutine that does not wait for the group
CloseChanUnwaited ==
    /\ pc = "collect"
    /\ ~closed
    /\ closed' = TRUE
    /\ UNCHANGED <<pc, needsMultiHop, braveAPIKey, queryTerms, deadline,
                   subQueries, bPc, bTimedOut, bExpired, bRes, resultsChan, wg,
                   allResults, successCount, failCount, received, insufficient,
                   fallbackCalls, handed, stages, topResults, verification, response,
                   fnVars, searchVars, raceVars, botVars>>

\* go func() { wg.Wait(); close(resultsChan) }()
CloseChan ==
    /\ pc = "collect"
    /\ wg = 0
    /\ ~closed
    /\ closed' = TRUE
    /\ UNCHANGED <<pc, needsMultiHop, braveAPIKey, queryTerms, deadline,
                   subQueries, bPc, bTimedOut, bExpired, bRes, resultsChan, wg,
                   allResults, successCount, failCount, received, insufficient,
                   fallbackCalls, handed, stages, topResults, verification, response,
                   fnVars, searchVars, raceVars, botVars>>

\* one iteration of: for sr := range resultsChan
CollectRecv ==
    /\ pc = "collect"
    /\ resultsChan # <<>>
    /\ LET sr == Head(resultsChan)
       IN  /\ IF sr.err # "nil"
              THEN /\ failCount' = failCount + 1
                   /\ UNCHANGED <<successCount, allResults>>
              ELSE /\ successCount' = successCount + 1
                   /\ allResults' = allResults \o sr.results
                   /\ UNCHANGED failCount
           /\ received' = Append(received, [query |-> sr.query, failed |-> sr.err # "nil"])
    /\ resultsChan' = Tail(resultsChan)
    /\ UNCHANGED <<pc, needsMultiHop, braveAPIKey, queryTerms, deadline,
                   subQueries, bPc, bTimedOut, bExpired, bRes, closed, wg, insufficient,
                   fallbackCalls, handed, stages, topResults, verification, response,
                   fnVars, searchVars, raceVars, botVars>>

\* the range loop ends on the closed, drained channel; the test for the
\* fallback is logged, and allResults returned either way
CollectEnd ==
    /\ pc = "collect"
    /\ resultsChan = <<>>
    /\ closed
    /\ insufficient' = FanOutInsufficient(failCount, subQueries, allResults)
    /\ pc' = "fallback"
    /\ UNCHANGED <<needsMultiHop, braveAPIKey, queryTerms, deadline,
                   subQueries, bPc, bTimedOut, bExpired, bRes, resultsChan, closed, wg,
                   allResults, successCount, failCount, received,
                   fallbackCalls, handed, stages, topResults, verification, response,
                   fnVars, searchVars, raceVars, botVars>>

\* a fallback whose results take the place of the collected ones
FallbackReplacing ==
    /\ pc = "fallback"
    /\ IF FallbackWanted(allResults)
       THEN \E raws \in PipeRaws, e \in ExpiryPoints(deadline) :
              LET res == SearchRun(ExpireFrom(raws, e), DirectMax, braveAPIKey)
              IN  /\ fallbackCalls' = fallbackCalls + 1
                  /\ allResults' = res.Results
       ELSE UNCHANGED <<fallbackCalls, allResults>>
    /\ pc' = "check"
    /\ UNCHANGED <<needsMultiHop, braveAPIKey, queryTerms, deadline,
                   subQueries, bPc, bTimedOut, bExpired, bRes, resultsChan, closed, wg,
                   successCount, failCount, received, insufficient,
                   handed, stages, topResults, verification, response,
                   fnVars, searchVars, raceVars, botVars>>

\* FALLBACK: if len(allResults) < 3, one direct Search on searchQuery, its
\* results appended unless it returned an error
Fallback ==
    /\ pc = "fallback"
    /\ IF FallbackWanted(allResults)
       THEN \E raws \in PipeRaws, e \in ExpiryPoints(deadline) :
              LET res == SearchRun(ExpireFrom(raws, e), DirectMax, braveAPIKey)
              IN  /\ fallbackCalls' = fallbackCalls + 1
                  /\ allResults' = IF res.err # "nil" THEN allResults
                                   ELSE allResults \o res.Results
       ELSE UNCHANGED <<fallbackCalls, allResults>>
    /\ pc' = "check"
    /\ UNCHANGED <<needsMultiHop, braveAPIKey, queryTerms, deadline,
                   subQueries, bPc, bTimedOut, bExpired, bRes, resultsChan, closed, wg,
                   successCount, failCount, received, insufficient,
                   handed, stages, topResults, verification, response,
                   fnVars, searchVars, raceVars, botVars>>

\* Regular search: one direct Search, whose error ends the request
DirectSearch ==
    /\ pc = "direct"
    /\ \E raws \in PipeRaws, e \in ExpiryPoints(deadline) :
          LET res == SearchRun(ExpireFrom(raws, e), DirectMax, braveAPIKey)
          IN  IF res.err # "nil"
              THEN /\ response' = [err |-> "search failed", Answer |-> "", Sources |-> <<>>]
                   /\ pc' = "done"
                   /\ UNCHANGED allResults
              ELSE /\ allResults' = res.Results
                   /\ pc' = "check"
                   /\ UNCHANGED response
    /\ UNCHANGED <<needsMultiHop, braveAPIKey, queryTerms, deadline,
                   subQueries, bPc, bTimedOut, bExpired, bRes, resultsChan, closed, wg,
                   successCount, failCount, received, insufficient,
                   fallbackCalls, handed, stages, topResults, verification,
                   fnVars, searchVars, raceVars, botVars>>

\* if len(allResults) == 0: the "could not find" response
ZeroCheck ==
    /\ pc = "check"
    /\ IF NoCandidates(allResults)
       THEN /\ response' = [err |-> "nil", Answer |-> "could not find", Sources |-> <<>>]
            /\ pc' = "done"
       ELSE /\ pc' = "rerank"
            /\ UNCHANGED response
    /\ UNCHANGED <<needsMultiHop, braveAPIKey, queryTerms, deadline,
                   subQueries, bPc, bTimedOut, bExpired, bRes, resultsChan, closed, wg,
                   allResults, successCount, failCount, received, insufficient,
                   fallbackCalls, handed, stages, topResults, verification,
                   fnVars, searchVars, raceVars, botVars>>

\* Step 3: allResults = a.reranker.Rerank(searchQuery, allResults)
DoRerank ==
    /\ pc = "rerank"
    /\ handed' = allResults
    /\ allResults' = Rerank(queryTerms, allResults)
    /\ stages' = stages \cup {"rerank"}
    /\ pc' = "score"
    /\ UNCHANGED <<needsMultiHop, braveAPIKey, queryTerms, deadline,
                   subQueries, bPc, bTimedOut, bExpired, bRes, resultsChan, closed, wg,
                   successCount, failCount, received, insufficient,
                   fallbackCalls, topResults, verification, response,
                   fnVars, searchVars, raceVars, botVars>>

\* Step 4: allResults = a.credibilityScorer.RankSources(allResults)
DoRankSources ==
    /\ pc = "score"
    /\ allResults' = RankSources(allResults)
    /\ stages' = stages \cup {"score"}
    /\ pc' = "select"
    /\ UNCHANGED <<needsMultiHop, braveAPIKey, queryTerms, deadline,
                   subQueries, bPc, bTimedOut, bExpired, bRes, resultsChan, closed, wg,
                   successCount, failCount, received, insufficient,
                   fallbackCalls, handed, topResults, verification, response,
                   fnVars, searchVars, raceVars, botVars>>

\* Step 5: topResults := a.selectDiverseSources(allResults, 10)
DoSelect ==
    /\ pc = "select"
    /\ topResults' = selectDiverseSources(allResults, SelectBudget)
    /\ stages' = stages \cup {"select"}
    /\ pc' = "verify"
    /\ UNCHANGED <<needsMultiHop, braveAPIKey, queryTerms, deadline,
                   subQueries, bPc, bTimedOut, bExpired, bRes, resultsChan, closed, wg,
                   allResults, successCount, failCount, received, insufficient,
                   fallbackCalls, handed, verification, response,
                   fnVars, searchVars, raceVars, botVars>>

\* Step 6: verification := a.crossVerify(topResults, queryLang)
DoCrossVerify ==
    /\ pc = "verify"
    /\ verification' = crossVerify(topResults)
    /\ stages' = stages \cup {"verify"}
    /\ pc' = "generate"
    /\ UNCHANGED <<needsMultiHop, braveAPIKey, queryTerms, deadline,
                   subQueries, bPc, bTimedOut, bExpired, bRes, resultsChan, closed, wg,
                   allResults, successCount, failCount, received, insufficient,
                   fallbackCalls, handed, topResults, response,
                   fnVars, searchVars, raceVars, botVars>>

\* Steps 7 to 10: the answer asked of the collaborator, whose error ends the
\* request, and the response with the displayed sources
Generate ==
    /\ pc = "generate"
    /\ \E ok \in IF deadline THEN {FALSE} ELSE BOOLEAN :
          response' = IF ok
                      THEN [err |-> "nil", Answer |-> "answer",
                            Sources |-> Sources(topResults)]
                      ELSE [err |-> "LLM completion failed", Answer |-> "",
                            Sources |-> <<>>]
    /\ stages' = stages \cup {"generate"}
    /\ pc' = "done"
    /\ UNCHANGED <<needsMultiHop, braveAPIKey, queryTerms, deadline,
                   subQueries, bPc, bTimedOut, bExpired, bRes, resultsChan, closed, wg,
                   allResults, successCount, failCount, received, insufficient,
                   fallbackCalls, handed, topResults, verification,
                   fnVars, searchVars, raceVars, botVars>>

\* the 20 s context of the request expires
Deadline ==
    /\ pc \notin {"idle", "done"}
    /\ ~deadline
    /\ deadline' = TRUE
    /\ UNCHANGED <<pc, needsMultiHop, braveAPIKey, queryTerms,
                   subQueries, bPc, bTimedOut, bExpired, bRes, resultsChan, closed, wg,
                   allResults, successCount, failCount, received, insufficient,
                   fallbackCalls, handed, stages, topResults, verification, response,
                   fnVars, searchVars, raceVars, botVars>>

Next ==
    \/ Enhance
    \/ GenerateSubQueries
    \/ FanOut
    \/ \E i \in Branches : SubQuerySearch(i)
    \/ CloseChan
    \/ CollectRecv
    \/ CollectEnd
    \/ Fallback
    \/ DirectSearch
    \/ ZeroCheck
    \/ DoRerank
    \/ DoRankSources
    \/ DoSelect
    \/ DoCrossVerify
    \/ Generate
    \/ Deadline

Spec == Init /\ [][Next]_vars

(***************************************************************************)
(* SpecRank: the ranking functions on drawn lists.                         *)
(***************************************************************************)
\* results drawn for the ranking functions: two pages of one site with the
\* same text and score, a long text with a score far above 1, a clickbait
\* page with no score, an excerpt of the first text, and an empty URL with
\* empty text and a negative score
RankResults ==
    {Result(A1, "d2", 500), Result(A2, "d2", 500), Result(B1, "d1", 9000),
     Result(C1, "d3", 0), Result(B1, "d4", 300), Result(NoURL, "", 0 - 4000)}

RankInputs == SeqsUpTo(RankResults, MaxRank)

RankInit ==
    /\ fnPc = "input"
    /\ fnIn \in RankInputs
    /\ fnArg = 0
    /\ fnOut = <<>>
    /\ fnAgain = <<>>
    /\ SearchIdle
    /\ PipeIdle
    /\ RaceIdle
    /\ BotIdle

\* allResults = a.reranker.Rerank(searchQuery, allResults)
FnRerank ==
    /\ fnPc = "input"
    /\ \E terms \in {0, 1} :
          /\ fnArg' = terms
          /\ fnOut' = Rerank(terms, fnIn)
    /\ fnPc' = "reranked"
    /\ UNCHANGED <<fnIn, fnAgain, searchVars, pipeVars, raceVars, botVars>>

\* allResults = a.credibilityScorer.RankSources(allResults)
FnRankSources ==
    /\ fnPc = "reranked"
    /\ fnAgain' = RankSources(fnOut)
    /\ fnPc' = "ranked"
    /\ UNCHANGED <<fnIn, fnArg, fnOut, searchVars, pipeVars, raceVars, botVars>>

\* verification := a.crossVerify(topResults, queryLang): the verdict and the
\* number of verified phrases behind it
FnCrossVerify ==
    /\ fnPc = "input"
    /\ fnArg' = IF Len(fnIn) < 2 THEN 0 ELSE verifiedCount(fnIn)
    /\ fnOut' = <<crossVerify(fnIn)>>
    /\ fnPc' = "verified"
    /\ UNCHANGED <<fnIn, fnAgain, searchVars, pipeVars, raceVars, botVars>>

\* totalLen of Rerank: the tokens of all the documents
RECURSIVE TotalLen(_)
TotalLen(results) ==
    IF results = <<>> THEN 0
    ELSE docTokens(Head(results).Doc) + TotalLen(Tail(results))

\* computeBM25 on one document of the list for a query term that occurs tf
\* times in it, and for the same document with one and two occurrences more
FnTermScore ==
    /\ fnPc = "input"
    /\ TotalLen(fnIn) > 0
    /\ \E i \in DOMAIN fnIn, tf \in 0..MaxTf :
          LET docLen == docTokens(fnIn[i].Doc)
              score(f) == termScore(f, docLen, TotalLen(fnIn), Len(fnIn))
          IN  /\ fnArg' = tf
              /\ fnOut' = <<score(tf), score(tf + 1), score(tf + 2)>>
    /\ fnPc' = "termscored"
    /\ UNCHANGED <<fnIn, fnAgain, searchVars, pipeVars, raceVars, botVars>>

RankNext == FnRerank \/ FnRankSources \/ FnCrossVerify \/ FnTermScore

SpecRank == RankInit /\ [][RankNext]_vars

(***************************************************************************)
(* SpecFanOut: the Search calls of the sub-query goroutines, which share   *)
(* the one SearchClient, at the grain of their accesses to lastReqTime.    *)
(* rateLimit holds no lock:                                                *)
(*   elapsed := time.Since(s.lastReqTime)            read                  *)
(*   if elapsed < minDelay { time.Sleep(...) }                             *)
(*   s.lastReqTime = time.Now()                      write                 *)
(* The clock is not modelled.                                              *)
(***************************************************************************)
\* the first provider wanted after the given one, "return" when none is
NextProvider(after, acc, key) ==
    IF after = "searxng" /\ BraveWanted(acc, key) THEN "brave"
    ELSE IF after \in {"searxng", "brave"} /\ InstantWanted(acc) THEN "instant"
    ELSE IF after \in {"searxng", "brave", "instant"} /\ HTMLWanted(acc) THEN "html"
    ELSE "return"

\* a goroutine enters a provider step: rateLimit first, except at return
Enter(provider) == <<provider, IF provider = "return" THEN "done" ELSE "read">>

\* what a provider other than SearXNG answers: one result, nothing, an error
OneResult(provider, raw, maxResults, key) ==
    IF provider = "brave" THEN tryBraveSearchAPI(raw, maxResults, key)
    ELSE IF provider = "instant"
         THEN tryInstantAnswer(IF raw.ok /\ raw.body # <<>>
                               THEN Body([answer |-> "", abstract |-> raw.body[1],
                                          topics |-> <<>>])
                               ELSE IF raw.ok THEN NoInstant ELSE raw,
                               maxResults)
    ELSE tryDDGHTML(raw, maxResults)

FanOutInit ==
    /\ pc = "idle"
    /\ needsMultiHop = TRUE
    /\ braveAPIKey \in BOOLEAN
    /\ queryTerms = 0
    /\ PipeStart
    /\ \E k \in 1..MaxSubQueries :
          gPc = [i \in Branches |-> IF i <= k THEN <<"searxng", "request">>
                                    ELSE <<"none", "none">>]
    /\ gAcc = [i \in Branches |-> <<>>]
    /\ rlWriter = 0
    /\ FnIdle
    /\ SearchIdle
    /\ BotIdle

\* Strategy 1: trySearXNG, issued without rateLimit
GoSearXNG(i) ==
    /\ gPc[i] = <<"searxng", "request">>
    /\ \E raws \in BranchRaws \cup {[Quiet EXCEPT !.searxng = Failed]} :
          LET got == trySearXNG(raws.searxng, SubQueryMax)
          IN  /\ gAcc' = [gAcc EXCEPT ![i] = got]
              /\ gPc' = [gPc EXCEPT ![i] = Enter(NextProvider("searxng", got, braveAPIKey))]
    /\ UNCHANGED <<rlWriter, fnVars, searchVars, pipeVars, botVars>>

\* rateLimit: elapsed := time.Since(s.lastReqTime), and the sleep that
\* follows when elapsed < minDelay, a delay before the write
RlRead(i) ==
    /\ gPc[i][2] = "read"
    /\ gPc' = [gPc EXCEPT ![i][2] = "write"]
    /\ UNCHANGED <<gAcc, rlWriter, fnVars, searchVars, pipeVars, botVars>>

\* rateLimit: s.lastReqTime = time.Now()
RlWrite(i) ==
    /\ gPc[i][2] = "write"
    /\ rlWriter' = i
    /\ gPc' = [gPc EXCEPT ![i][2] = "request"]
    /\ UNCHANGED <<gAcc, fnVars, searchVars, pipeVars, botVars>>

\* Strategies 2 to 4: the request, its results appended
GoRequest(i) ==
    /\ gPc[i][1] \in {"brave", "instant", "html"}
    /\ gPc[i][2] = "request"
    /\ \E raw \in {Failed, Body(<<>>), Body(<<Entry(C1, "d2")>>)} :
          LET acc == gAcc[i] \o OneResult(gPc[i][1], raw, SubQueryMax - Len(gAcc[i]),
                                          braveAPIKey)
          IN  /\ gAcc' = [gAcc EXCEPT ![i] = acc]
              /\ gPc' = [gPc EXCEPT ![i] = Enter(NextProvider(gPc[i][1], acc, braveAPIKey))]
    /\ UNCHANGED <<rlWriter, fnVars, searchVars, pipeVars, botVars>>

FanOutNext ==
    \E i \in Branches : GoSearXNG(i) \/ RlRead(i) \/ RlWrite(i) \/ GoRequest(i)

SpecFanOut == FanOutInit /\ [][FanOutNext]_vars

(***************************************************************************)
(* SpecPlan: Step 2 of ProcessWithContext on drawn queries and answers of  *)
(* the collaborator.                                                       *)
(***************************************************************************)
PlanWords == {"what", "how", "when", "where", "show", "compare"}

\* numbers of fields: a short question, and the two sides of the threshold
FieldCounts == {7, 20, 21}

PlanQueries == {[kinds |-> ks, words |-> n] : ks \in SUBSET PlanWords, n \in FieldCounts}

PlanLines ==
    {Line("", ""), Line("", "short"), Line("", "Sub-questions:"),
     Line("- ", "first sub-query"), Line("1. ", "second sub-query"),
     Line("", "third sub-query")}

PlanAnswers == {Failed} \cup {Body(ls) : ls \in SeqsUpTo(PlanLines, MaxLines)}

PlanInit ==
    /\ fnPc = "query"
    /\ fnIn \in {<<q>> : q \in PlanQueries}
    /\ fnArg = 0
    /\ fnOut = <<>>
    /\ fnAgain = <<>>
    /\ SearchIdle
    /\ PipeIdle
    /\ RaceIdle
    /\ BotIdle

\* needsMultiHop := a.detectMultiHop(query)
FnDetect ==
    /\ fnPc = "query"
    /\ fnArg' = IF detectMultiHop(fnIn[1]) THEN 1 ELSE 0
    /\ fnPc' = "detected"
    /\ UNCHANGED <<fnIn, fnOut, fnAgain, searchVars, pipeVars, raceVars, botVars>>

\* if needsMultiHop: subQueries := a.generateSubQueries(ctx, searchQuery, queryLang)
FnGenerate ==
    /\ fnPc = "detected"
    /\ fnArg = 1
    /\ \E answer \in PlanAnswers :
          /\ fnOut' = subQueriesOf(answer, fnIn[1])
          /\ fnAgain' = <<answer.ok, IF answer.ok THEN Len(KeptLines(answer.body)) ELSE 0>>
    /\ fnPc' = "decomposed"
    /\ UNCHANGED <<fnIn, fnArg, searchVars, pipeVars, raceVars, botVars>>

\* else: one Search on searchQuery, the collaborator not asked
FnDirect ==
    /\ fnPc = "detected"
    /\ fnArg = 0
    /\ fnOut' = fnIn
    /\ fnPc' = "direct"
    /\ UNCHANGED <<fnIn, fnArg, fnAgain, searchVars, pipeVars, raceVars, botVars>>

PlanNext == FnDetect \/ FnGenerate \/ FnDirect

SpecPlan == PlanInit /\ [][PlanNext]_vars

(***************************************************************************)
(* SpecCollect: parallelSubQuerySearch alone, from its call to its return, *)
(* with the scheduling of Go: a goroutine that can run does run, and a     *)
(* Search call returns.                                                    *)
(***************************************************************************)
CollectInit ==
    /\ pc = "fanout"
    /\ needsMultiHop = TRUE
    /\ braveAPIKey \in BOOLEAN
    /\ queryTerms \in {0, 1}
    /\ deadline \in BOOLEAN
    /\ subQueries \in 1..MaxSubQueries
    /\ bPc = [i \in Branches |-> "none"]
    /\ bTimedOut = [i \in Branches |-> FALSE]
    /\ bExpired = [i \in Branches |-> FALSE]
    /\ bRes = [i \in Branches |-> [Results |-> <<>>, err |-> "pending"]]
    /\ resultsChan = <<>>
    /\ closed = FALSE
    /\ wg = 0
    /\ allResults = <<>>
    /\ successCount = 0
    /\ failCount = 0
    /\ received = <<>>
    /\ insufficient = FALSE
    /\ fallbackCalls = 0
    /\ handed = <<>>
    /\ stages = {}
    /\ topResults = <<>>
    /\ verification = ""
    /\ response = NoResponse
    /\ FnIdle
    /\ SearchIdle
    /\ RaceIdle
    /\ BotIdle

CollectNext ==
    \/ FanOut
    \/ \E i \in Branches : SubQuerySearch(i)
    \/ CloseChan
    \/ CollectRecv
    \/ CollectEnd
    \/ Deadline

SpecCollect ==
    /\ CollectInit
    /\ [][CollectNext]_vars
    /\ WF_vars(FanOut)
    /\ \A i \in Branches : WF_vars(SubQuerySearch(i))
    /\ WF_vars(CloseChan)
    /\ WF_vars(CollectRecv)
    /\ WF_vars(CollectEnd)

(***************************************************************************)
(* LLMClient.Complete: one call, split at its requests to the completion   *)
(* API.  fnIn holds the client and the arguments, fnOut the requests       *)
(* issued, fnAgain the API's answers, fnArg what the call returns.         *)
(* Temperatures are in tenths; a field left at its zero value is 0.        *)
(***************************************************************************)
LLMModels == {"gpt-3.5-turbo", "gpt-4o", "o1-mini"}

\* strings.Contains(model, "o1") and its two longer variants
supportsCustomParams(model) == model # "o1-mini"

\* strings.Contains(model, "gpt-4") || strings.Contains(model, "o1")
isGPT4Model(model) == model \in {"gpt-4o", "o1-mini"}

\* req.Temperature = 1.0 of the retry
DefaultTemperature == 10

\* the request Complete builds first
FirstRequest(call) ==
    [Model |-> call.model,
     Temperature |-> IF supportsCustomParams(call.model) THEN call.temperature ELSE 0,
     MaxTokens |-> IF supportsCustomParams(call.model) /\ ~isGPT4Model(call.model)
                   THEN call.maxTokens ELSE 0]

\* the request of the retry: the same with default parameters
RetryRequest(req) == [req EXCEPT !.Temperature = DefaultTemperature, !.MaxTokens = 0]

\* what the API can answer: an error text, or a response with its choices
LLMErrors ==
    {"unsupported value: temperature", "unsupported parameter: max_tokens",
     "use max_completion_tokens instead", "rate limit exceeded",
     "context deadline exceeded"}

LLMAnswers ==
    {[err |-> e, choices |-> <<>>] : e \in LLMErrors}
    \cup {[err |-> "", choices |-> c] : c \in {<<>>, <<"text">>, <<"text", "other">>}}

\* a test that takes every error for one about the parameters
AnyError(err) == err # ""

\* the error mentions "temperature", "max_tokens" or "max_completion_tokens"
MentionsParams(err) ==
    err \in {"unsupported value: temperature", "unsupported parameter: max_tokens",
             "use max_completion_tokens instead"}

Pending == [text |-> "", err |-> "pending"]

\* the return on a response: its first choice, or an error when it has none
ReturnOf(resp) ==
    IF Len(resp.choices) = 0 THEN [text |-> "", err |-> "no response from LLM"]
    ELSE [text |-> resp.choices[1], err |-> "nil"]

ChatFailed == [text |-> "", err |-> "chat completion failed"]

LLMInit ==
    /\ fnPc = "call"
    /\ \E c \in BOOLEAN, m \in LLMModels, t \in {0, 3}, mt \in {0, 200} :
          fnIn = <<[client |-> c, model |-> m, temperature |-> t, maxTokens |-> mt]>>
    /\ fnArg = Pending
    /\ fnOut = <<>>
    /\ fnAgain = <<>>
    /\ SearchIdle
    /\ PipeIdle
    /\ RaceIdle
    /\ BotIdle

\* up to the first CreateChatCompletion: no client, no request
LLMCall ==
    /\ fnPc = "call"
    /\ IF ~fnIn[1].client
       THEN /\ fnArg' = [text |-> "", err |-> "LLM client not initialized"]
            /\ fnPc' = "returned"
            /\ UNCHANGED fnOut
       ELSE /\ fnOut' = <<FirstRequest(fnIn[1])>>
            /\ fnPc' = "first"
            /\ UNCHANGED fnArg
    /\ UNCHANGED <<fnIn, fnAgain, searchVars, pipeVars, raceVars, botVars>>

\* the first request returns: retry on an error about the parameters,
\* return on any other error and on a response
LLMFirstAnswer ==
    /\ fnPc = "first"
    /\ \E resp \in LLMAnswers :
          /\ fnAgain' = <<resp>>
          /\ IF resp.err # ""
             THEN IF MentionsParams(resp.err)
                  THEN /\ fnOut' = Append(fnOut, RetryRequest(fnOut[1]))
                       /\ fnPc' = "retry"
                       /\ UNCHANGED fnArg
                  ELSE /\ fnArg' = ChatFailed
                       /\ fnPc' = "returned"
                       /\ UNCHANGED fnOut
             ELSE /\ fnArg' = ReturnOf(resp)
                  /\ fnPc' = "returned"
                  /\ UNCHANGED fnOut
    /\ UNCHANGED <<fnIn, searchVars, pipeVars, raceVars, botVars>>

\* the retry returns: any error ends the call
LLMRetryAnswer ==
    /\ fnPc = "retry"
    /\ \E resp \in LLMAnswers :
          /\ fnAgain' = Append(fnAgain, resp)
          /\ fnArg' = IF resp.err # "" THEN ChatFailed ELSE ReturnOf(resp)
    /\ fnPc' = "returned"
    /\ UNCHANGED <<fnIn, fnOut, searchVars, pipeVars, raceVars, botVars>>

LLMNext == LLMCall \/ LLMFirstAnswer \/ LLMRetryAnswer

SpecLLM == LLMInit /\ [][LLMNext]_vars

(***************************************************************************)
(* SpecBot: cmd/tgbot.  The update loop of main runs handleCommand, the    *)
(* button handlers and handleCallback itself and starts handleQuery in a   *)
(* goroutine of its own; all of them use the global map userSessions and   *)
(* the UserSession objects it points to, with no lock.  Each step is one   *)
(* access to the map or to a field.  A SessionID is a number, 0 for "".    *)
(***************************************************************************)
Modes == {"auto", "pro"}

NewSession(mode) == [SessionID |-> 0, Mode |-> mode]

NoAccess == [obj |-> "none", ptr |-> 0, write |-> FALSE]

MapAccess(write) == [obj |-> "map", ptr |-> 0, write |-> write]

FieldAccess(field, ptr, write) == [obj |-> field, ptr |-> ptr, write |-> write]

\* the access the update loop makes next
LoopAccess ==
    IF lPc = "lookup" THEN MapAccess(FALSE)
    ELSE IF lPc = "store" THEN MapAccess(TRUE)
    ELSE IF lPc = "setMode" THEN FieldAccess("Mode", lSession, TRUE)
    ELSE IF lPc = "setID" THEN FieldAccess("SessionID", lSession, TRUE)
    ELSE NoAccess

\* the access goroutine h of handleQuery makes next
HandlerAccess(h) ==
    IF hPc[h] = "lookup" THEN MapAccess(FALSE)
    ELSE IF hPc[h] = "store" THEN MapAccess(TRUE)
    ELSE IF hPc[h] = "check" THEN FieldAccess("SessionID", hSession[h], FALSE)
    ELSE IF hPc[h] = "create" THEN FieldAccess("Mode", hSession[h], FALSE)
    ELSE IF hPc[h] = "writeID" THEN FieldAccess("SessionID", hSession[h], TRUE)
    ELSE IF hPc[h] = "send" THEN FieldAccess("SessionID", hSession[h], FALSE)
    ELSE NoAccess

\* thread 0 is the update loop
Threads == {0} \cup Handlers

NextAccess(t) == IF t = 0 THEN LoopAccess ELSE HandlerAccess(t)

\* two accesses to one location, one of them a write
Conflict(x, y) ==
    /\ x.obj # "none"
    /\ x.obj = y.obj
    /\ x.ptr = y.ptr
    /\ x.write \/ y.write

BotInit ==
    /\ sessions = <<>>
    /\ userSessions = [u \in Users |-> 0]
    /\ updates = 0
    /\ lPc = "recv"
    /\ lCmd = NoCmd
    /\ lSession = 0
    /\ hPc = [h \in Handlers |-> "none"]
    /\ hUser = [h \in Handlers |-> 1]
    /\ hSession = [h \in Handlers |-> 0]
    /\ FnIdle
    /\ SearchIdle
    /\ PipeIdle
    /\ RaceIdle

\* for update := range updates: a text message starts handleQuery in a
\* goroutine and the loop goes on; a command, a button or a callback is
\* handled by the loop itself
BotRecv ==
    /\ lPc = "recv"
    /\ updates < MaxUpdates
    /\ updates' = updates + 1
    /\ \E kind \in {"start", "newsession", "callback", "query"}, u \in Users, m \in Modes :
          IF kind = "query"
          THEN /\ hPc' = [hPc EXCEPT ![updates + 1] = "lookup"]
               /\ hUser' = [hUser EXCEPT ![updates + 1] = u]
               /\ UNCHANGED <<lPc, lCmd>>
          ELSE /\ lCmd' = [kind |-> kind, user |-> u,
                           mode |-> IF kind = "callback" THEN m ELSE "auto"]
               /\ lPc' = "lookup"
               /\ UNCHANGED <<hPc, hUser>>
    /\ UNCHANGED <<sessions, userSessions, lSession, hSession,
                   fnVars, searchVars, pipeVars, raceVars>>

\* the loop's handler reads userSessions[userID]
LoopLookup ==
    /\ lPc = "lookup"
    /\ LET p == userSessions[lCmd.user]
       IN  IF p = 0
           THEN IF lCmd.kind = "newsession"
                THEN /\ lPc' = "recv"
                     /\ UNCHANGED <<sessions, lSession>>
                ELSE /\ sessions' = Append(sessions, NewSession(lCmd.mode))
                     /\ lSession' = Len(sessions) + 1
                     /\ lPc' = "store"
           ELSE /\ lSession' = p
                /\ lPc' = IF lCmd.kind = "start" THEN "recv"
                          ELSE IF lCmd.kind = "newsession" THEN "setID"
                          ELSE "setMode"
                /\ UNCHANGED sessions
    /\ UNCHANGED <<userSessions, updates, lCmd, hPc, hUser, hSession,
                   fnVars, searchVars, pipeVars, raceVars>>

\* userSessions[userID] = session, by the loop
LoopStore ==
    /\ lPc = "store"
    /\ userSessions' = [userSessions EXCEPT ![lCmd.user] = lSession]
    /\ lPc' = "recv"
    /\ UNCHANGED <<sessions, updates, lCmd, lSession, hPc, hUser, hSession,
                   fnVars, searchVars, pipeVars, raceVars>>

\* session.Mode = mode
LoopSetMode ==
    /\ lPc = "setMode"
    /\ sessions' = [sessions EXCEPT ![lSession].Mode = lCmd.mode]
    /\ lPc' = "setID"
    /\ UNCHANGED <<userSessions, updates, lCmd, lSession, hPc, hUser, hSession,
                   fnVars, searchVars, pipeVars, raceVars>>

\* session.SessionID = ""
LoopSetID ==
    /\ lPc = "setID"
    /\ sessions' = [sessions EXCEPT ![lSession].SessionID = 0]
    /\ lPc' = "recv"
    /\ UNCHANGED <<userSessions, updates, lCmd, lSession, hPc, hUser, hSession,
                   fnVars, searchVars, pipeVars, raceVars>>

\* handleQuery: session, ok := userSessions[userID]
HLookup(h) ==
    /\ lPc # "fatal"
    /\ hPc[h] = "lookup"
    /\ LET p == userSessions[hUser[h]]
       IN  IF p = 0
           THEN /\ sessions' = Append(sessions, NewSession("auto"))
                /\ hSession' = [hSession EXCEPT ![h] = Len(sessions) + 1]
                /\ hPc' = [hPc EXCEPT ![h] = "store"]
           ELSE /\ hSession' = [hSession EXCEPT ![h] = p]
                /\ hPc' = [hPc EXCEPT ![h] = "check"]
                /\ UNCHANGED sessions
    /\ UNCHANGED <<userSessions, updates, lPc, lCmd, lSession, hUser,
                   fnVars, searchVars, pipeVars, raceVars>>

\* handleQuery: userSessions[userID] = session
HStore(h) ==
    /\ lPc # "fatal"
    /\ hPc[h] = "store"
    /\ userSessions' = [userSessions EXCEPT ![hUser[h]] = hSession[h]]
    /\ hPc' = [hPc EXCEPT ![h] = "check"]
    /\ UNCHANGED <<sessions, updates, lPc, lCmd, lSession, hUser, hSession,
                   fnVars, searchVars, pipeVars, raceVars>>

\* handleQuery: if session.SessionID == ""
HCheck(h) ==
    /\ lPc # "fatal"
    /\ hPc[h] = "check"
    /\ hPc' = [hPc EXCEPT ![h] = IF sessions[hSession[h]].SessionID = 0
                                 THEN "create" ELSE "send"]
    /\ UNCHANGED <<sessions, userSessions, updates, lPc, lCmd, lSession, hUser, hSession,
                   fnVars, searchVars, pipeVars, raceVars>>

\* handleQuery: createChatSession(apiURL, session.Mode), which may fail
HCreate(h) ==
    /\ lPc # "fatal"
    /\ hPc[h] = "create"
    /\ \E ok \in BOOLEAN : hPc' = [hPc EXCEPT ![h] = IF ok THEN "writeID" ELSE "done"]
    /\ UNCHANGED <<sessions, userSessions, updates, lPc, lCmd, lSession, hUser, hSession,
                   fnVars, searchVars, pipeVars, raceVars>>

\* handleQuery: session.SessionID = sessionID, a new identifier
HWriteID(h) ==
    /\ lPc # "fatal"
    /\ hPc[h] = "writeID"
    /\ sessions' = [sessions EXCEPT ![hSession[h]].SessionID = h]
    /\ hPc' = [hPc EXCEPT ![h] = "send"]
    /\ UNCHANGED <<userSessions, updates, lPc, lCmd, lSession, hUser, hSession,
                   fnVars, searchVars, pipeVars, raceVars>>

\* handleQuery: sendChatMessage(apiURL, session.SessionID, query, session.Mode)
HSend(h) ==
    /\ lPc # "fatal"
    /\ hPc[h] = "send"
    /\ hPc' = [hPc EXCEPT ![h] = "done"]
    /\ UNCHANGED <<sessions, userSessions, updates, lPc, lCmd, lSession, hUser, hSession,
                   fnVars, searchVars, pipeVars, raceVars>>

\* two goroutines at the map at once, one of them writing: the runtime may
\* stop the process ("fatal error: concurrent map writes"), or not notice
MapFault ==
    /\ lPc # "fatal"
    /\ \E t1, t2 \in Threads :
          /\ t1 # t2
          /\ NextAccess(t1).obj = "map"
          /\ Conflict(NextAccess(t1), NextAccess(t2))
    /\ lPc' = "fatal"
    /\ UNCHANGED <<sessions, userSessions, updates, lCmd, lSession, hPc, hUser, hSession,
                   fnVars, searchVars, pipeVars, raceVars>>

BotNext ==
    \/ BotRecv
    \/ LoopLookup
    \/ LoopStore
    \/ LoopSetMode
    \/ LoopSetID
    \/ \E h \in Handlers :
          HLookup(h) \/ HStore(h) \/ HCheck(h) \/ HCreate(h) \/ HWriteID(h) \/ HSend(h)
    \/ MapFault

SpecBot == BotInit /\ [][BotNext]_vars

(***************************************************************************)
(* Properties.                                                             *)
(***************************************************************************)
\* number of entries of list s whose URL has normalized domain d
DomainCount(s, d) == Cardinality({i \in DOMAIN s : extractDomain(s[i].URL) = d})

DomainsOf(s) == {extractDomain(s[i].URL) : i \in DOMAIN s}

\* candidates admissible within the cap: per non-empty domain, the first
\* maxPerDomain candidates in ranked order
WithinCap(s) ==
    {i \in DOMAIN s :
        /\ extractDomain(s[i].URL) # ""
        /\ Cardinality({j \in 1..(i - 1) :
                          extractDomain(s[j].URL) = extractDomain(s[i].URL)}) < maxPerDomain}

\* C7: in an output of selectDiverseSources a normalized domain appears more
\* than maxPerDomain (2) times only if the candidates admissible within the
\* cap number fewer than maxResults.
C7_DiversityCap ==
    fnPc = "selected" =>
        \A d \in DomainsOf(fnOut) :
            DomainCount(fnOut, d) > maxPerDomain => Cardinality(WithinCap(fnIn)) < fnArg

\* a selection in which the cap is exceeded, and one in which the cap binds:
\* three candidates of one domain, of which the budget leaves room for all,
\* yet only two are taken
C7_Witness ==
    /\ fnPc = "selected"
    /\ \E d \in DomainsOf(fnOut) : DomainCount(fnOut, d) > maxPerDomain

C7_WitnessCapBinds ==
    /\ fnPc = "selected"
    /\ Len(fnOut) = fnArg
    /\ \E d \in DomainsOf(fnIn) :
          DomainCount(fnIn, d) > maxPerDomain /\ DomainCount(fnOut, d) = maxPerDomain

\* C9: deduplicateResults is idempotent: applied to its own output it returns
\* that output unchanged.
C9_DedupIdempotent ==
    fnPc = "deduped2" => fnAgain = fnOut

\* a second application after a first one that removed a duplicate and kept
\* two results
C9_Witness ==
    /\ fnPc = "deduped2"
    /\ Len(fnOut) < Len(fnIn)
    /\ Len(fnOut) >= 2

\* the providers in priority order
Priority == <<"searxng", "brave", "instant", "html">>

\* the decisions taken so far follow the priority order, SearXNG first
InPriorityOrder == \A n \in DOMAIN sLog : n <= 4 /\ sLog[n].provider = Priority[n]

\* C4 (as stated): providers are invoked in priority order and, after each
\* provider's results are appended, the next one is invoked if and only if
\* fewer than 3 results are accumulated; the cascade stops only with at least
\* 3 results accumulated or every provider invoked.
C4_NextIffFewerThanThree ==
    /\ InPriorityOrder
    /\ \A n \in DOMAIN sLog : n > 1 => (sLog[n].invoked <=> sLog[n].before < 3)
    /\ sPc = "done" => (Len(sAcc) >= 3 \/ \A n \in DOMAIN sLog : sLog[n].invoked)

\* C4 (amended): providers are invoked in priority order; SearXNG always,
\* Brave if and only if fewer than 3 results are accumulated and an API key is
\* configured, DuckDuckGo Instant Answer if and only if fewer than 2 are
\* accumulated, DuckDuckGo HTML if and only if none is accumulated.
C4_DecreasingThresholds ==
    /\ InPriorityOrder
    /\ \A n \in DOMAIN sLog :
          LET d == sLog[n]
          IN  /\ d.provider = "searxng" => d.invoked /\ d.before = 0
              /\ d.provider = "brave" => (d.invoked <=> (d.before < 3 /\ sKey))
              /\ d.provider = "instant" => (d.invoked <=> d.before < 2)
              /\ d.provider = "html" => (d.invoked <=> d.before < 1)
    /\ sPc = "done" => Len(sLog) = 4

\* a completed call in which two results were accumulated and neither
\* DuckDuckGo provider was invoked
C4_Witness ==
    /\ sPc = "done"
    /\ Len(sAcc) = 2
    /\ \E n \in DOMAIN sLog : sLog[n].provider = "instant" /\ ~sLog[n].invoked
    /\ \E n \in DOMAIN sLog : sLog[n].provider = "brave" /\ sLog[n].invoked

\* C5: a provider that errors or returns nothing never makes Search return
\* an error and never keeps the following providers from being tried (Brave
\* being tried only with an API key); when every provider fails or returns
\* nothing, Search returns an empty list and a nil error.
C5_FailuresIsolated ==
    /\ sRet.err \in {"pending", "nil"}
    /\ sPc = "done" => sRet.err = "nil"
    /\ \A n \in DOMAIN sLog :
          (n > 1 /\ \A m \in 1..(n - 1) : sLog[m].got = 0)
              => (sLog[n].invoked \/ (sLog[n].provider = "brave" /\ ~sKey))
    /\ (sPc = "done" /\ \A n \in DOMAIN sLog : sLog[n].got = 0)
          => /\ sRet.Results = <<>>
             /\ Len(sLog) = 4
             /\ \A n \in DOMAIN sLog :
                   sLog[n].invoked \/ (sLog[n].provider = "brave" /\ ~sKey)

\* a completed call in which all four providers were invoked and all failed
C5_Witness ==
    /\ sPc = "done"
    /\ Len(sLog) = 4
    /\ \A n \in DOMAIN sLog : sLog[n].invoked /\ ~sLog[n].ok
    /\ sRet = [Results |-> <<>>, err |-> "nil"]

\* the steps of ProcessWithContext that follow the fallback decision
AfterFallback == {"check", "rerank", "score", "select", "verify", "generate", "done"}

RECURSIVE Collected(_)
Collected(n) ==
    IF n = 0 THEN <<>>
    ELSE Collected(n - 1) \o bRes[received[n].query].Results

\* C2: a sub-query's context is done only by its own timer or by the
\* request's deadline, never by a sibling, and when the collection ends every
\* sub-query has been received and the collected list holds all the results
\* of every sub-query, whatever the others returned and in whatever order
\* they completed.
C2_SiblingsIsolated ==
    /\ \A i \in Branches : bExpired[i] => (bTimedOut[i] \/ deadline)
    /\ pc = "fallback" =>
          /\ {received[n].query : n \in DOMAIN received} = 1..subQueries
          /\ Len(received) = subQueries
          /\ allResults = Collected(Len(received))

\* the collection has ended with a sub-query that timed out before its first
\* request, received before a sibling of lower number whose results are all
\* in the collected list
C2_Witness ==
    /\ pc = "fallback"
    /\ \E m, n \in DOMAIN received :
          /\ m < n
          /\ received[m].query > received[n].query
          /\ bTimedOut[received[m].query]
          /\ bRes[received[m].query].Results = <<>>
          /\ ~bExpired[received[n].query]
          /\ Len(bRes[received[n].query].Results) = 3
    /\ Len(allResults) >= 3

\* C3: a sub-query whose Search call met a done context (its 12 s timer or
\* the deadline), every provider failing when it was done from the start,
\* is recorded as failed and contributes no result.
C3_TimedOutRecordedFailed ==
    \A n \in DOMAIN received :
        bExpired[received[n].query] =>
            /\ received[n].failed
            /\ bRes[received[n].query].Results = <<>>

\* C6: a request that ends with no candidate, after the sub-queries and the
\* fallback or after the direct search, returns the "could not find" answer
\* with a nil error and no source, and has run none of reranking, scoring,
\* selection, verification and generation.
C6_NoCandidatesResponse ==
    (pc = "done" /\ Len(allResults) = 0) =>
        /\ response = [err |-> "nil", Answer |-> "could not find", Sources |-> <<>>]
        /\ stages = {}
        /\ topResults = <<>>

\* a multi-hop request whose sub-queries and fallback search found nothing
C6_Witness ==
    /\ pc = "done"
    /\ needsMultiHop
    /\ subQueries > 1
    /\ fallbackCalls = 1
    /\ Len(allResults) = 0
    /\ response.Answer = "could not find"

\* C8: selectDiverseSources(allResults, 10) returns at most 10 results and
\* the response lists at most 8 sources.
C8_SizeBounds ==
    /\ Len(topResults) <= SelectBudget
    /\ Len(response.Sources) <= DisplayMax

\* an answered request with more than 10 candidates: 10 selected, 8 listed
C8_Witness ==
    /\ pc = "done"
    /\ response.err = "nil"
    /\ Len(allResults) > SelectBudget
    /\ Len(topResults) = SelectBudget
    /\ Len(response.Sources) = DisplayMax

\* C10: the list handed to the Reranker holds no two results whose URLs are
\* equal after normalization.
C10_HandedDeduplicated ==
    \A i, j \in DOMAIN handed :
        i # j => normalizedURL(handed[i].URL) # normalizedURL(handed[j].URL)

\* C11: every credibility ScoreSource assigns lies in [0, 1] (0..100000 in
\* units of 1/100000), for an empty URL, an empty text and scores below 0 or
\* far above 1 alike.
C11_CredibilityInUnitInterval ==
    fnPc = "ranked" =>
        \A i \in DOMAIN fnAgain :
            fnAgain[i].Credibility >= 0 /\ fnAgain[i].Credibility <= 100000

\* a ranked list holding a result clamped to 1 and the empty one clamped to 0
C11_Witness ==
    /\ fnPc = "ranked"
    /\ fnArg = 0
    /\ \E i, j \in DOMAIN fnAgain :
          /\ fnAgain[i].Credibility = 100000 /\ fnAgain[i].Score = 9000
          /\ fnAgain[j].Credibility = 0 /\ fnAgain[j].URL = NoURL
                /\ fnAgain[j].Doc = ""

\* the input of Rerank with the scores Rerank assigns
WithScores(terms, s) ==
    IF terms = 0 \/ Len(s) = 0 THEN s
    ELSE [i \in DOMAIN s |-> [s[i] EXCEPT !.Score = computeBM25(s[i].Doc)]]

\* the input of RankSources with the credibilities RankSources assigns
WithCredibility(s) == [i \in DOMAIN s |-> [s[i] EXCEPT !.Credibility = ScoreSource(s[i])]]

\* C12: Rerank and RankSources are stable: the results of equal sort key
\* stand in the output in the order they had in the input.
C12_RankingStable ==
    /\ fnPc \in {"reranked", "ranked"} =>
          \A v \in {fnOut[i].Score : i \in DOMAIN fnOut} :
              SelectSeq(fnOut, LAMBDA r : r.Score = v)
                  = SelectSeq(WithScores(fnArg, fnIn), LAMBDA r : r.Score = v)
    /\ fnPc = "ranked" =>
          \A v \in {fnAgain[i].Credibility : i \in DOMAIN fnAgain} :
              SelectSeq(fnAgain, LAMBDA r : r.Credibility = v)
                  = SelectSeq(WithCredibility(fnOut), LAMBDA r : r.Credibility = v)

\* the results of the sub-queries merged in the order of the sub-queries
RECURSIVE InSubQueryOrder(_)
InSubQueryOrder(n) ==
    IF n = 0 THEN <<>> ELSE InSubQueryOrder(n - 1) \o bRes[n].Results

\* Steps 3 to 5 on a merged list
SelectionOf(merged) ==
    selectDiverseSources(RankSources(Rerank(queryTerms, merged)), SelectBudget)

\* C13: the ordered selection does not depend on the order in which the
\* sub-queries complete: whatever order their results were received in, it
\* is the selection obtained when they complete in the order of the
\* sub-queries (no fallback search being made).
C13_SelectionOrderIndependent ==
    (needsMultiHop /\ fallbackCalls = 0 /\ "select" \in stages) =>
        topResults = SelectionOf(InSubQueryOrder(subQueries))

\* goroutine i is at an access to s.lastReqTime
AtLastReqTime(i) == gPc[i][2] \in {"read", "write"}

\* C14: no two sub-query goroutines are at an access to the same variable of
\* the shared client, one of them a write, without synchronization.
C14_NoConcurrentMutation ==
    \A i, j \in Branches :
        (i # j /\ AtLastReqTime(i) /\ AtLastReqTime(j))
            => (gPc[i][2] = "read" /\ gPc[j][2] = "read")

\* C15: generateSubQueries returns between 1 and 3 sub-queries; when the
\* collaborator fails or no line of its answer is usable, it returns the
\* query it was given as the only sub-query; the number returned is the one
\* the pipeline fans out on.
C15_SubQueriesOneToThree ==
    fnPc = "decomposed" =>
        /\ Len(fnOut) >= 1 /\ Len(fnOut) <= 3
        /\ (~fnAgain[1] \/ fnAgain[2] = 0) => fnOut = fnIn
        /\ Len(fnOut) = generateSubQueries(IF fnAgain[1] THEN fnAgain[2] ELSE 0 - 1)

\* the collaborator answered with lines none of which is usable
C15_Witness ==
    /\ fnPc = "decomposed"
    /\ fnAgain = <<TRUE, 0>>
    /\ fnOut = fnIn

\* the collaborator answered with more than three usable lines
C15_WitnessCapped ==
    /\ fnPc = "decomposed"
    /\ fnAgain[1] /\ fnAgain[2] > 3
    /\ Len(fnOut) = 3

\* the question words of English among the words drawn
EnglishQuestionWords == {"what", "how", "why", "when", "where", "who", "which"}

\* C16 as stated: a query is flagged if and only if it holds a trigger
\* phrase, or has more than 20 tokens and at least 2 distinct question words.
C16_FlaggedIffQuestionWords ==
    fnPc \in {"detected", "decomposed", "direct"} =>
        (fnArg = 1 <=>
            \/ \E t \in fnIn[1].kinds, ind \in strongIndicators : Contains(t, ind)
            \/ /\ fnIn[1].words > 20
               /\ Cardinality(fnIn[1].kinds \cap EnglishQuestionWords) >= 2)

\* C16: the collaborator is asked to decompose only a flagged query; a query
\* is flagged if and only if an indicator occurs in it, or it has more than
\* 20 fields and at least 2 of the seven listed words (what, how, why and
\* four Russian ones) occur in it, as words or inside words; a query with no
\* indicator and at most 20 fields goes to the one direct search.
C16_FlaggedIffListedWords ==
    /\ fnPc \in {"detected", "decomposed", "direct"} =>
          (fnArg = 1 <=>
              \/ \E t \in fnIn[1].kinds, ind \in strongIndicators : Contains(t, ind)
              \/ /\ fnIn[1].words > 20
                 /\ Cardinality({w \in questionWordList :
                                    \E t \in fnIn[1].kinds : Contains(t, w)}) >= 2)
    /\ fnPc = "decomposed" => fnArg = 1
    /\ (fnPc \in {"decomposed", "direct"} /\ fnIn[1].words <= 20
            /\ ~\E t \in fnIn[1].kinds, ind \in strongIndicators : Contains(t, ind))
          => fnPc = "direct" /\ fnOut = fnIn

\* a query of 21 fields that holds "show" and "what" and no other listed
\* word, flagged and decomposed
C16_Witness ==
    /\ fnPc = "decomposed"
    /\ fnIn[1] = [kinds |-> {"show", "what"}, words |-> 21]

\* a short question with one question word, searched directly
C16_WitnessDirect ==
    /\ fnPc = "direct"
    /\ fnIn[1] = [kinds |-> {"what"}, words |-> 7]

\* C17: with the document length, the average length and idf fixed, the
\* score of a query term does not decrease when tf grows by one, the gain of
\* one more occurrence is smaller than the gain of the one before, and the
\* score stays below idf * (k1 + 1) (scores per unit of idf, idf > 0).
C17_TermScoreSaturates ==
    fnPc = "termscored" =>
        LET c0 == fnOut[1]
            c1 == fnOut[2]
            c2 == fnOut[3]
        IN  /\ c0.den > 0 /\ c1.den > 0 /\ c2.den > 0
            /\ c0.num * c1.den <= c1.num * c0.den
            /\ c1.num * c2.den <= c2.num * c1.den
            /\ (c2.num * c1.den - c1.num * c2.den) * c0.den
                  < (c1.num * c0.den - c0.num * c1.den) * c2.den
            /\ c2.num * k1.den < (k1.num + k1.den) * c2.den

\* the term occurs three to five times in the longest document of a list of
\* documents of different lengths
C17_Witness ==
    /\ fnPc = "termscored"
    /\ fnArg = 3
    /\ Len(fnIn) = 3
    /\ \E i, j \in DOMAIN fnIn : fnIn[i].Doc = "d1" /\ fnIn[j].Doc = "d3"
    /\ fnOut[1].num > 0
    /\ fnOut[1].num * fnOut[3].den < fnOut[3].num * fnOut[1].den

\* the 3-token windows that occur in at least 2 distinct candidates
SharedPhrases(results) ==
    LET phrases == UNION {Range(Windows(results[i].Doc)) : i \in DOMAIN results}
    IN  {ph \in phrases :
            Cardinality({i \in DOMAIN results : ph \in Range(Windows(results[i].Doc))}) >= 2}

\* C18: verifiedCount is the number of distinct 3-token windows that occur
\* in at least 2 distinct candidates; a window repeated inside one candidate
\* only is not counted.
C18_CountsSharedPhrases ==
    (fnPc = "verified" /\ Len(fnIn) >= 2) => fnArg = Cardinality(SharedPhrases(fnIn))

\* the results of s at the given positions, in order
RECURSIVE PickIn(_, _, _)
PickIn(s, positions, i) ==
    IF i > Len(s) THEN <<>>
    ELSE (IF i \in positions THEN <<s[i]>> ELSE <<>>) \o PickIn(s, positions, i + 1)

\* C19: the selection starts with the candidates admissible within the cap,
\* in ranked order, as far as the budget goes; a candidate beyond the cap is
\* selected only when all of those are, and stands after them.
C19_WithinCapFirst ==
    fnPc = "selected" =>
        LET within == PickIn(fnIn, WithinCap(fnIn), 1)
            n == Min(Len(within), fnArg)
        IN  /\ Len(fnOut) >= n
            /\ Take(fnOut, n) = Take(within, n)
            /\ \A j \in (n + 1)..Len(fnOut) :
                  /\ n = Len(within)
                  /\ fnOut[j] \notin Range(within)
                  /\ fnOut[j] \in Range(fnIn)

\* three candidates of one site ranked above one of another site, budget 4:
\* the third of the first site is selected last
C19_Witness ==
    /\ fnPc = "selected"
    /\ fnArg = 4
    /\ Len(fnIn) = 4
    /\ fnOut = <<fnIn[1], fnIn[2], fnIn[4], fnIn[3]>>
    /\ extractDomain(fnIn[3].URL) = extractDomain(fnIn[1].URL)
    /\ extractDomain(fnIn[4].URL) # extractDomain(fnIn[1].URL)

\* positions of the first result of each normalized URL
FirstOfKey(s) ==
    {i \in DOMAIN s :
        \A j \in 1..(i - 1) : normalizedURL(s[j].URL) # normalizedURL(s[i].URL)}

\* C20: deduplicateResults returns, in arrival order, the first result of
\* each normalized URL (lower-cased, trailing slashes stripped) of its input
\* and nothing else; no two results returned share a normalized URL.
C20_FirstOfEachKey ==
    fnPc = "deduped" =>
        /\ fnOut = PickIn(fnIn, FirstOfKey(fnIn), 1)
        /\ \A i, j \in DOMAIN fnOut :
              i # j => normalizedURL(fnOut[i].URL) # normalizedURL(fnOut[j].URL)

\* an input in which the second and the last result repeat the first one in
\* another spelling, a different page standing between them
C20_Witness ==
    /\ fnPc = "deduped"
    /\ Len(fnIn) = 4
    /\ fnOut = <<fnIn[1], fnIn[3]>>
    /\ fnIn[2].URL # fnIn[1].URL
    /\ fnIn[4].URL # fnIn[1].URL /\ fnIn[4].URL # fnIn[2].URL
    /\ fnIn[4].URL.trail = MaxTrail

\* C21 as stated: the selection is full or holds every input candidate
C21_FullOrAll ==
    fnPc = "selected" =>
        \/ Len(fnOut) = fnArg
        \/ \A i \in DOMAIN fnIn : fnIn[i] \in Range(fnOut)

\* C21: the selection never exceeds the budget, and when it is under budget
\* the URL of every input candidate that has a domain is selected; candidates
\* without a domain, and further candidates of a URL already selected, are
\* left out.
C21_FullOrAllWithDomain ==
    fnPc = "selected" =>
        /\ Len(fnOut) <= fnArg
        /\ Len(fnOut) < fnArg =>
              \A i \in DOMAIN fnIn :
                  extractDomain(fnIn[i].URL) # "" =>
                      \E j \in DOMAIN fnOut : fnOut[j].URL = fnIn[i].URL

\* budget 4, three candidates of one site and one without a domain: the
\* second loop admits the third, the selection stays under budget
C21_Witness ==
    /\ fnPc = "selected"
    /\ fnArg = 4
    /\ Len(fnIn) = 4
    /\ fnOut = <<fnIn[1], fnIn[2], fnIn[4]>>
    /\ extractDomain(fnIn[3].URL) = ""
    /\ \A i \in {2, 4} : extractDomain(fnIn[i].URL) = extractDomain(fnIn[1].URL)
    /\ Cardinality({fnIn[1].URL, fnIn[2].URL, fnIn[4].URL}) = 3

\* out holds the results of in, each as many times as in does
PermutationOf(out, in) ==
    /\ Len(out) = Len(in)
    /\ \A r \in Range(in) \cup Range(out) :
          Cardinality({i \in DOMAIN out : out[i] = r})
              = Cardinality({i \in DOMAIN in : in[i] = r})

\* the BM25 score of a result: the sum over the query's terms, 0 with none
BM25Of(terms, r) == IF terms = 0 THEN 0 ELSE computeBM25(r.Doc)

\* C22: Rerank returns a permutation of its input (Score rewritten to the
\* BM25 score when the query has a term) in non-increasing BM25 score, and
\* RankSources a permutation of its input (Credibility rewritten) in
\* non-increasing credibility.
C22_SortedPermutation ==
    /\ fnPc \in {"reranked", "ranked"} =>
          /\ PermutationOf(fnOut, WithScores(fnArg, fnIn))
          /\ \A i, j \in DOMAIN fnOut :
                i < j => BM25Of(fnArg, fnOut[i]) >= BM25Of(fnArg, fnOut[j])
          /\ fnArg = 1 => \A i \in DOMAIN fnOut : fnOut[i].Score = BM25Of(1, fnOut[i])
    /\ fnPc = "ranked" =>
          /\ PermutationOf(fnAgain, WithCredibility(fnOut))
          /\ \A i, j \in DOMAIN fnAgain :
                i < j => fnAgain[i].Credibility >= fnAgain[j].Credibility

\* three results in increasing BM25 score are reversed by Rerank, and
\* RankSources moves the last of them, more credible, ahead
C22_Witness ==
    /\ fnPc = "ranked"
    /\ fnArg = 1
    /\ Len(fnIn) = 3
    /\ computeBM25(fnIn[1].Doc) < computeBM25(fnIn[2].Doc)
    /\ computeBM25(fnIn[2].Doc) < computeBM25(fnIn[3].Doc)
    /\ fnOut[1].URL = fnIn[3].URL /\ fnOut[3].URL = fnIn[1].URL
    /\ fnAgain # fnOut
    /\ \E i \in 1..2 : fnAgain[i].Credibility > fnAgain[i + 1].Credibility

\* C23: each of the five terms ScoreSource weights lies in [0, 1] (0..1000 in
\* thousandths), the Score carried over from Rerank included, so that the
\* relevance term adds at most 0.25 (25000 in units of 1/100000).
C23_TermsInUnitInterval ==
    fnPc = "ranked" =>
        \A i \in DOMAIN fnOut :
            /\ \A term \in {scoreDomain(fnOut[i].URL), scoreContent(fnOut[i].Doc),
                             fnOut[i].Score, scoreURL(fnOut[i].URL),
                             scoreFreshness(fnOut[i].URL)} :
                  term >= 0 /\ term <= 1000
            /\ fnOut[i].Score * 25 <= 25000

\* C24: a run makes at most one direct fallback Search; after the fallback
\* step the candidate list starts with every collected sub-query result in
\* the collected order, followed by at most 15 fallback results, it is the
\* collected list itself when no call was made, and no error is set.
C24_OneFallbackAppended ==
    /\ fallbackCalls <= 1
    /\ (needsMultiHop /\ pc = "check") =>
          LET collected == Collected(Len(received))
          IN  /\ Len(allResults) >= Len(collected)
              /\ Take(allResults, Len(collected)) = collected
              /\ Len(allResults) <= Len(collected) + DirectMax
              /\ fallbackCalls = 0 => allResults = collected
              /\ response = NoResponse

\* two results collected from the sub-queries, then a fallback call that
\* appended its own
C24_Witness ==
    /\ needsMultiHop
    /\ pc = "check"
    /\ fallbackCalls = 1
    /\ Len(Collected(Len(received))) = 2
    /\ Len(allResults) > 2

\* the fallback call returned nothing (its providers failed or the context
\* was done): the collected results are all there is, and the run goes on
C24_WitnessFailed ==
    /\ needsMultiHop
    /\ pc = "rerank"
    /\ fallbackCalls = 1
    /\ Len(allResults) >= 1
    /\ allResults = Collected(Len(received))
    /\ response = NoResponse

\* C25: crossVerify returns the empty verdict for fewer than 2 candidates;
\* otherwise its verdict is "verified by multiple sources" iff verifiedCount
\* > 3, "some facts verified" iff 0 < verifiedCount <= 3, and "different
\* information" iff verifiedCount = 0.
C25_VerdictThresholds ==
    fnPc = "verified" =>
        LET verdict == fnOut[1]
        IN  /\ Len(fnIn) < 2 => verdict = ""
            /\ Len(fnIn) >= 2 =>
                  /\ verdict = "facts verified by multiple sources" <=> fnArg > 3
                  /\ verdict = "some facts verified by only one source"
                        <=> (0 < fnArg /\ fnArg <= 3)
                  /\ verdict = "sources contain different information" <=> fnArg = 0

\* exactly 3 phrases counted twice: the verdict is the partial one
C25_Witness ==
    /\ fnPc = "verified"
    /\ Len(fnIn) = 2
    /\ fnArg = 3
    /\ fnOut = <<"some facts verified by only one source">>

\* 4 phrases counted twice: the verdict is the strong one
C25_WitnessStrong ==
    /\ fnPc = "verified"
    /\ Len(fnIn) = 2
    /\ fnArg = 4
    /\ fnOut = <<"facts verified by multiple sources">>

\* C26: every result Search returns has a non-empty URL and a score in
\* [0, 1] (0..1000 in thousandths), whatever the providers answered.
C26_ResultsWellFormed ==
    sPc = "done" =>
        \A i \in DOMAIN sRet.Results :
            /\ sRet.Results[i].URL # NoURL
            /\ sRet.Results[i].Score >= 0
            /\ sRet.Results[i].Score <= 1000

\* the requests issued so far, in order
IssuedRequests == SelectSeq(sLog, LAMBDA d : d.invoked)

\* C27: between any two consecutive provider requests of a client at least
\* the minimum delay elapses, the SearXNG request and the one after it
\* included.
C27_MinDelayBetweenRequests ==
    \A n \in 1..(Len(IssuedRequests) - 1) :
        IssuedRequests[n + 1].at - IssuedRequests[n].at >= MinDelay

\* the drawn errors whose text names one of the request's parameters
ParamErrors ==
    {"unsupported value: temperature", "unsupported parameter: max_tokens",
     "use max_completion_tokens instead"}

\* C28: Complete issues at most two requests; the second, with temperature
\* 1 and no max tokens, is issued if and only if the first failed with an
\* error mentioning temperature, max_tokens or max_completion_tokens; any
\* other error, a failed retry and a response without choices are returned
\* as an error, and every request issued was answered before the return.
C28_AtMostOneRetry ==
    /\ Len(fnOut) <= 2
    /\ fnPc \in {"retry", "returned"} =>
          /\ Len(fnOut) = 2 <=>
                (Len(fnAgain) >= 1 /\ fnAgain[1].err \in ParamErrors)
          /\ Len(fnOut) = 2 =>
                fnOut[2] = [Model |-> fnIn[1].model, Temperature |-> 10, MaxTokens |-> 0]
    /\ fnPc = "returned" =>
          /\ Len(fnAgain) = Len(fnOut)
          /\ Len(fnOut) = 0 => (~fnIn[1].client /\ fnArg.err \notin {"nil", "pending"})
          /\ Len(fnOut) > 0 =>
                LET last == fnAgain[Len(fnAgain)]
                IN  /\ last.err # "" => fnArg = ChatFailed
                    /\ (last.err = "" /\ last.choices = <<>>) =>
                          fnArg.err = "no response from LLM"
                    /\ (last.err = "" /\ last.choices # <<>>) =>
                          fnArg = [text |-> last.choices[1], err |-> "nil"]

\* a first request refused for its max_tokens, a retry with the default
\* parameters that is answered
C28_Witness ==
    /\ fnPc = "returned"
    /\ Len(fnOut) = 2
    /\ fnOut[1].MaxTokens = 200
    /\ fnAgain[1].err = "unsupported parameter: max_tokens"
    /\ fnOut[2].MaxTokens = 0
    /\ fnArg = [text |-> "text", err |-> "nil"]

\* a first request that fails on the rate limit: one request, an error
C28_WitnessNoRetry ==
    /\ fnPc = "returned"
    /\ Len(fnOut) = 1
    /\ fnAgain[1].err = "rate limit exceeded"
    /\ fnArg = ChatFailed

\* the outcomes sub-query i has sent, received or still in the channel
OutcomesOf(i) ==
    Cardinality({n \in DOMAIN resultsChan : resultsChan[n].query = i})
    + Cardinality({n \in DOMAIN received : received[n].query = i})

FanInSafe ==
    /\ \A i \in Branches :
          /\ OutcomesOf(i) = (IF bPc[i] = "exited" THEN 1 ELSE 0)
          \* a goroutine about to send finds room in the channel
          /\ bPc[i] = "run" => Len(resultsChan) < subQueries
    /\ closed => \A i \in 1..subQueries : bPc[i] = "exited"
    /\ Len(received) <= subQueries
    /\ pc = "fallback" => (Len(received) = subQueries /\ closed /\ resultsChan = <<>>)

\* C29: every sub-query goroutine sends exactly one outcome and finds room
\* in the channel, the channel is closed only after all of them have
\* finished, the collector receives exactly k outcomes, and
\* parallelSubQuerySearch returns in the end.
C29_FanInTerminates == []FanInSafe /\ <>(pc = "fallback")

\* the call has returned after 3 sub-queries whose outcomes were received in
\* another order than they were started
C29_Witness ==
    /\ pc = "fallback"
    /\ subQueries = 3
    /\ Len(received) = 3
    /\ received[1].query = 3
    /\ closed

\* C30: no two goroutines of the bot are about to access userSessions, or
\* one field of one UserSession, with at least one of them writing.
C30_NoUnsynchronizedAccess ==
    \A t1, t2 \in Threads :
        t1 # t2 => ~Conflict(NextAccess(t1), NextAccess(t2))

=============================================================================
